---- MODULE Spec2Model ----
(***************************************************************************)
(* Control-port asynchronous event delivery (control_event.c): the         *)
(* interest registry (global_event_mask), the queued event dispatcher      *)
(* (queue_control_event_string / queued_events_flush_all) and SETEVENTS.   *)
(***************************************************************************)
EXTENDS Integers, Sequences, FiniteSets, TLC

(* ---------------------------------------------------------------------- *)
(* Bounds of the model                                                     *)
(* ---------------------------------------------------------------------- *)
\* number of payloads handed to publish in one behaviour
MaxMsgs == 3
\* number of SETEVENTS commands in one behaviour
MaxCmds == 2
\* number of payloads and commands together in one behaviour of the registry
\* specification
MaxRegOps == 4
\* longest byte string given to write_escaped_data
MaxDataLen == 4
\* most bytes of memory at start, for the quoted-string parser
MaxQuotedLen == 4
\* most calls of orconn_state_subscribe, and of orconn_state_publish
MaxSubs == 3
MaxBusMsgs == 2

(* ---------------------------------------------------------------------- *)
(* Event codes (control_event.h)                                           *)
(* ---------------------------------------------------------------------- *)
EVENT_OR_CONN_STATUS == 3
EVENT_BANDWIDTH_USED == 4
EVENT_DEBUG_MSG == 7
EVENT_INFO_MSG == 8
EVENT_NOTICE_MSG == 9
EVENT_WARN_MSG == 10
EVENT_ERR_MSG == 11
EVENT_STATUS_GENERAL == 18
EVENT_STREAM_BANDWIDTH_USED == 20
EVENT_CONN_BW == 26
EVENT_CELL_STATS == 27
EVENT_CIRC_BANDWIDTH_USED == 29

\* EVENT_MASK_(e): the one-bit mask of event e; a mask is the set of its bits
EVENT_MASK_(e) == {e}

\* control_event_table restricted to the names the commands of the model use
control_event_table ==
  << [event_code |-> EVENT_OR_CONN_STATUS, event_name |-> "ORCONN"],
     [event_code |-> EVENT_BANDWIDTH_USED, event_name |-> "BW"],
     [event_code |-> EVENT_DEBUG_MSG, event_name |-> "DEBUG"],
     [event_code |-> EVENT_INFO_MSG, event_name |-> "INFO"],
     [event_code |-> EVENT_NOTICE_MSG, event_name |-> "NOTICE"],
     [event_code |-> EVENT_WARN_MSG, event_name |-> "WARN"],
     [event_code |-> EVENT_ERR_MSG, event_name |-> "ERR"],
     [event_code |-> EVENT_STATUS_GENERAL, event_name |-> "STATUS_GENERAL"],
     [event_code |-> EVENT_STREAM_BANDWIDTH_USED, event_name |-> "STREAM_BW"],
     [event_code |-> EVENT_CONN_BW, event_name |-> "CONN_BW"],
     [event_code |-> EVENT_CELL_STATS, event_name |-> "CELL_STATS"],
     [event_code |-> EVENT_CIRC_BANDWIDTH_USED, event_name |-> "CIRC_BW"] >>

\* strcasecmp(a, b) = 0: equality after folding case; the fold is tabulated
\* for the tokens the commands of the model use
CaseFold(s) ==
  CASE s = "orconn" -> "ORCONN"
    [] s = "Warn" -> "WARN"
    [] s = "extended" -> "EXTENDED"
    [] OTHER -> s

strcasecmp_eq(a, b) == CaseFold(a) = CaseFold(b)

(* ---------------------------------------------------------------------- *)
(* Threads and connections                                                 *)
(* ---------------------------------------------------------------------- *)
Main == "main"
Workers == {"w1"}
Threads == {Main} \cup Workers
NoThread == "none"

in_main_thread(t) == t = Main

\* the connection array (get_connection_array), in array order: two control
\* connections and one application-side (AP) connection
ConnType == << "CONTROL", "CONTROL", "AP" >>
\* the first control connection has authenticated, the second has not yet
ConnInitState == << "OPEN", "NEEDAUTH", "OPEN" >>
Conns == DOMAIN ConnType
ControlConns == {c \in Conns : ConnType[c] = "CONTROL"}

\* event codes producers publish in the model
PublishEvents == {EVENT_OR_CONN_STATUS, EVENT_WARN_MSG}

\* codes of the log messages the log subsystem holds back for the main thread
DrainEvents == {EVENT_WARN_MSG}

\* bodies of the SETEVENTS commands of the model (already split at spaces)
Bodies ==
  { << >>,
    << "orconn" >>,
    << "extended", "ORCONN", "Warn" >>,
    << "ORCONN", "FOOBAR", "Bogus" >> }

\* the connection and the command bodies of the concurrent specification
DispatchConn == CHOOSE c \in Conns : ConnInitState[c] = "OPEN" /\ ConnType[c] = "CONTROL"
DispatchBodies == { << >>, << "orconn" >> }

VARIABLES
  global_event_mask,          \* static event_mask_t global_event_mask
  conn_state,                 \* connection_t.state per connection
  marked_for_close,           \* connection_t.marked_for_close
  event_mask,                 \* control_connection_t.event_mask
  outbuf,                     \* connection_t.outbuf: what was appended, in order
  queued_control_events,      \* [null, list]: the smartlist pointer and its content
  flush_queued_event_pending, \* static int flush_queued_event_pending
  lock_exists,                \* queued_control_events_lock != NULL
  lock_holder,                \* the thread that holds the mutex, or NoThread
  flush_queued_events_event,  \* "null", "idle" or "active" (mainloop_event_t)
  block_event_queue,          \* thread-local counter, per thread
  pc,                         \* position of each thread
  cur,                        \* per thread: the event and payload in publish
  queued_events,              \* local list of flush / free_all (main thread)
  old_mask,                   \* local old_mask of control_update_global_event_mask
  cmd_conn,                   \* the connection whose SETEVENTS is being handled
  assert_failed,              \* "none", or the tor_assert that aborted the process
  next_msg,                   \* payloads allocated so far
  n_cmds,                     \* SETEVENTS commands handled so far
  freed,                      \* payloads released with tor_free
  enq_log,                    \* history: appends to the queue, in mutex order
  log_callback,               \* severities last given to change_callback_log_severity
  circ_bw,                    \* per circuit: the *_circ_bw counters
  edge_bw,                    \* per AP connection: edge_connection_t n_written, n_read
  recompute_calls,            \* functions called by the last recompute's aftermath
  cmd_body,                   \* the body of the SETEVENTS being handled
  esc_data,                   \* the bytes given to write_escaped_data
  esc_out,                    \* *out of write_escaped_data
  esc_read,                   \* *out of read_escaped_data
  esc_pc,                     \* position of the codec's caller
  q_buf,                      \* the bytes at start, for the quoted-string parser
  q_len,                      \* in_len_max
  q_extract,                  \* result of extract_escaped_string
  q_decode,                   \* result of decode_escaped_string
  q_pc,                       \* position of the parser's caller
  orconn_state_rcvrs,         \* [null, list]: static smartlist_t *orconn_state_rcvrs
  bus_sub_log,                \* history: the arguments of orconn_state_subscribe
  bus_calls,                  \* history: the callbacks invoked, with their message
  bus_n_pub,                  \* state messages published so far
  oc_call,                    \* arguments of the last control_event_or_conn_status
  oc_line                     \* the line it composed and the payload that holds it

vars == << global_event_mask, conn_state, marked_for_close, event_mask, outbuf,
           queued_control_events, flush_queued_event_pending, lock_exists,
           lock_holder, flush_queued_events_event, block_event_queue, pc, cur,
           queued_events, old_mask, cmd_conn, assert_failed,
           next_msg, n_cmds, freed, enq_log,
           log_callback, circ_bw, edge_bw, recompute_calls, cmd_body,
           esc_data, esc_out, esc_read, esc_pc,
           q_buf, q_len, q_extract, q_decode, q_pc,
           orconn_state_rcvrs, bus_sub_log, bus_calls, bus_n_pub,
           oc_call, oc_line >>

connVars == << conn_state, marked_for_close, event_mask, outbuf >>
queueVars == << queued_control_events, flush_queued_event_pending >>
histVars == << freed, enq_log >>
armVars == << log_callback, circ_bw, edge_bw, recompute_calls, cmd_body >>
busVars == << orconn_state_rcvrs, bus_sub_log, bus_calls, bus_n_pub >>
ocVars == << oc_call, oc_line >>
orconnVars == << busVars, ocVars >>

\* no call of control_event_or_conn_status yet, and no line composed
NoCall == [tp |-> "none", reason |-> 0, chan |-> FALSE, pending |-> 0,
           attached |-> 0]
NoLine == [msg |-> 0, status |-> "", reason_clause |-> "", reason_text |-> "",
           ncircs_buf |-> << >>]

quoVars == << q_buf, q_len, q_extract, q_decode, q_pc >>
escVars == << esc_data, esc_out, esc_read, esc_pc, quoVars >>

\* what extract_escaped_string and decode_escaped_string leave when they
\* were not called or return NULL: no position, *out and *out_len untouched
NoParse == [ret |-> -1, out |-> << >>, out_len |-> -1, written |-> FALSE]

\* the quoted-string parser not in use
InitQuoUnused ==
  /\ q_buf = << >>
  /\ q_len = 0
  /\ q_extract = NoParse
  /\ q_decode = NoParse
  /\ q_pc = "unused"


\* the circuits of the global circuit list, by kind
CircType == << "ORIGIN", "OR" >>
Circs == DOMAIN CircType
CIRCUIT_IS_ORIGIN(k) == CircType[k] = "ORIGIN"
ApConns == { c \in Conns : ConnType[c] = "AP" }

CircBwFields ==
  { "n_written_circ_bw", "n_read_circ_bw",
    "n_overhead_written_circ_bw", "n_overhead_read_circ_bw",
    "n_delivered_written_circ_bw", "n_delivered_read_circ_bw" }
EdgeBwFields == { "n_written", "n_read" }

\* the log callback before any call of change_callback_log_severity
NoCallback == [loglevelMin |-> "unset", loglevelMax |-> "unset"]

NoEvent == [event |-> 0, msg |-> 0]
NullQueue == [null |-> TRUE, list |-> << >>]
NewQueue == [null |-> FALSE, list |-> << >>]

Running == assert_failed = "none"

\* STATE_IS_OPEN(s)
STATE_IS_OPEN(s) == s = "OPEN"

\* EVENT_IS_INTERESTING(e)
EVENT_IS_INTERESTING(e) == (global_event_mask \cap EVENT_MASK_(e)) # {}

\* control_event_is_interesting(event)
control_event_is_interesting(e) == EVENT_IS_INTERESTING(e)

InitDispatcher ==
  /\ global_event_mask = {}
  /\ conn_state = ConnInitState
  /\ marked_for_close = [c \in Conns |-> FALSE]
  /\ event_mask = [c \in Conns |-> {}]
  /\ outbuf = [c \in Conns |-> << >>]
  /\ queued_control_events = NullQueue
  /\ flush_queued_event_pending = FALSE
  /\ lock_exists = FALSE
  /\ lock_holder = NoThread
  /\ flush_queued_events_event = "null"
  /\ block_event_queue = [t \in Threads |-> 0]
  /\ pc = [t \in Threads |-> "idle"]
  /\ cur = [t \in Threads |-> NoEvent]
  /\ queued_events = << >>
  /\ old_mask = {}
  /\ cmd_conn = 0
  /\ assert_failed = "none"
  /\ next_msg = 0
  /\ n_cmds = 0
  /\ freed = {}
  /\ enq_log = << >>
  /\ log_callback = NoCallback
  /\ circ_bw = [k \in Circs |-> [f \in CircBwFields |-> 0]]
  /\ edge_bw = [c \in ApConns |-> [f \in EdgeBwFields |-> 0]]
  /\ recompute_calls = {}
  /\ cmd_body = << >>
  /\ orconn_state_rcvrs = NullQueue
  /\ bus_sub_log = << >>
  /\ bus_calls = << >>
  /\ bus_n_pub = 0
  /\ oc_call = NoCall
  /\ oc_line = NoLine

\* the dispatcher, with the codec not in use
Init ==
  /\ InitDispatcher
  /\ esc_data = << >>
  /\ esc_out = << >>
  /\ esc_read = << >>
  /\ esc_pc = "unused"
  /\ InitQuoUnused



(* ---------------------------------------------------------------------- *)
(* Connection life cycle (outside control_event.c)                         *)
(* ---------------------------------------------------------------------- *)
\* a control connection finishes authentication and accepts commands
ConnAuthenticated(c) ==
  /\ Running /\ pc[Main] = "idle"
  /\ ConnType[c] = "CONTROL" /\ conn_state[c] = "NEEDAUTH"
  /\ conn_state' = [conn_state EXCEPT ![c] = "OPEN"]
  /\ UNCHANGED << global_event_mask, marked_for_close, event_mask, outbuf,
                  queueVars, lock_exists, lock_holder, flush_queued_events_event,
                  block_event_queue, pc, cur, queued_events,
                  old_mask, cmd_conn, assert_failed, next_msg, n_cmds, histVars >>
  /\ UNCHANGED armVars
  /\ UNCHANGED escVars
  /\ UNCHANGED orconnVars

\* a connection is marked for close; it stays in the connection array
ConnMarkForClose(c) ==
  /\ Running /\ pc[Main] = "idle"
  /\ ConnType[c] = "CONTROL"
  /\ ~marked_for_close[c]
  /\ marked_for_close' = [marked_for_close EXCEPT ![c] = TRUE]
  /\ UNCHANGED << global_event_mask, conn_state, event_mask, outbuf,
                  queueVars, lock_exists, lock_holder, flush_queued_events_event,
                  block_event_queue, pc, cur, queued_events,
                  old_mask, cmd_conn, assert_failed, next_msg, n_cmds, histVars >>
  /\ UNCHANGED armVars
  /\ UNCHANGED escVars
  /\ UNCHANGED orconnVars

(* ---------------------------------------------------------------------- *)
(* control_initialize_event_queue                                          *)
(* ---------------------------------------------------------------------- *)
\* b: tor_libevent_get_base() returned a base
control_initialize_event_queue(b) ==
  /\ Running /\ pc[Main] = "idle"
  /\ queued_control_events' =
       IF queued_control_events.null THEN NewQueue ELSE queued_control_events
  /\ flush_queued_events_event' =
       IF flush_queued_events_event = "null" /\ b THEN "idle"
       ELSE flush_queued_events_event
  /\ lock_exists' = TRUE
  /\ UNCHANGED << global_event_mask, connVars, flush_queued_event_pending,
                  lock_holder, block_event_queue, pc, cur, queued_events, old_mask, cmd_conn, assert_failed, next_msg,
                  n_cmds, freed, enq_log >>
  /\ UNCHANGED armVars
  /\ UNCHANGED escVars
  /\ UNCHANGED orconnVars

(* ---------------------------------------------------------------------- *)
(* queue_control_event_string                                              *)
(* ---------------------------------------------------------------------- *)
\* the record of a payload freed by one of the two early returns: the interest
\* test comes first
Dropped(m, ev) ==
  [msg |-> m, why |-> IF ~EVENT_IS_INTERESTING(ev) THEN "uninteresting" ELSE "reentry"]

\* variant: the interest test is missing
PublishAdmits_NoInterest(t, ev) == block_event_queue[t] = 0

\* variant: the reentry test is missing
PublishAdmits_NoGuard(t, ev) == EVENT_IS_INTERESTING(ev)

\* the two early returns: the event is admitted iff it is interesting and the
\* calling thread's block_event_queue is zero
PublishAdmits(t, ev) ==
  /\ EVENT_IS_INTERESTING(ev)
  /\ block_event_queue[t] = 0

\* entry of publish on thread t (not inside publish or flush): the interest
\* test, the reentry test, the allocation of ev and ++*block_event_queue
PublishCheckCore(t, ev) ==
  /\ Running /\ pc[t] = "idle"
  /\ next_msg < MaxMsgs
  /\ next_msg' = next_msg + 1
  /\ IF PublishAdmits(t, ev)
       THEN /\ cur' = [cur EXCEPT ![t] = [event |-> ev, msg |-> next_msg + 1]]
            /\ block_event_queue' = [block_event_queue EXCEPT ![t] = @ + 1]
            /\ pc' = [pc EXCEPT ![t] = "pub_acquire"]
            /\ freed' = freed
       ELSE /\ freed' = freed \cup { Dropped(next_msg + 1, ev) }
            /\ UNCHANGED << cur, block_event_queue, pc >>
  /\ UNCHANGED << global_event_mask, connVars, queueVars, lock_exists,
                  lock_holder, flush_queued_events_event, queued_events, old_mask, cmd_conn, assert_failed, n_cmds,
                  enq_log >>
  /\ UNCHANGED armVars
  /\ UNCHANGED escVars

\* queue_control_event_string up to the mutex, called with a payload of
\* its own
PublishCheck(t, ev) ==
  /\ PublishCheckCore(t, ev)
  /\ UNCHANGED orconnVars

\* variant: the mutex is not taken
PublishAcquire_NoLock(t) ==
  /\ Running /\ pc[t] = "pub_acquire"
  /\ pc' = [pc EXCEPT ![t] = "pub_critical"]
  /\ UNCHANGED << global_event_mask, connVars, queueVars, lock_exists, lock_holder,
                  flush_queued_events_event, block_event_queue, cur,
                  queued_events, old_mask, cmd_conn, assert_failed, next_msg,
                  n_cmds, histVars >>
  /\ UNCHANGED armVars
  /\ UNCHANGED escVars
  /\ UNCHANGED orconnVars

\* tor_mutex_acquire(queued_control_events_lock)
PublishAcquire(t) ==
  /\ Running /\ pc[t] = "pub_acquire"
  /\ IF ~lock_exists
       THEN /\ assert_failed' = "tor_mutex_acquire(NULL)"
            /\ UNCHANGED << lock_holder, pc >>
       ELSE /\ lock_holder = NoThread
            /\ lock_holder' = t
            /\ pc' = [pc EXCEPT ![t] = "pub_critical"]
            /\ UNCHANGED assert_failed
  /\ UNCHANGED << global_event_mask, connVars, queueVars, lock_exists,
                  flush_queued_events_event, block_event_queue, cur,
                  queued_events, old_mask, cmd_conn, next_msg,
                  n_cmds, histVars >>
  /\ UNCHANGED armVars
  /\ UNCHANGED escVars
  /\ UNCHANGED orconnVars

\* variant: the payload is also written to the control connections at once
PublishCritical_Direct(t) ==
  /\ Running /\ pc[t] = "pub_critical"
  /\ ~queued_control_events.null
  /\ queued_control_events' =
       [queued_control_events EXCEPT !.list = Append(@, cur[t])]
  /\ enq_log' = Append(enq_log,
       [msg |-> cur[t].msg, event |-> cur[t].event, thread |-> t,
        drain |-> FALSE, interesting |-> EVENT_IS_INTERESTING(cur[t].event), activate |-> FALSE])
  /\ outbuf' = [c \in Conns |->
        IF ConnType[c] = "CONTROL" /\ (event_mask[c] \cap {cur[t].event}) # {}
        THEN Append(outbuf[c], [kind |-> "event", msg |-> cur[t].msg, text |-> ""])
        ELSE outbuf[c]]
  /\ lock_holder' = NoThread
  /\ block_event_queue' = [block_event_queue EXCEPT ![t] = @ - 1]
  /\ pc' = [pc EXCEPT ![t] = "idle"]
  /\ cur' = [cur EXCEPT ![t] = NoEvent]
  /\ UNCHANGED << global_event_mask, conn_state, marked_for_close, event_mask,
                  flush_queued_event_pending, flush_queued_events_event,
                  lock_exists, queued_events, old_mask, cmd_conn, assert_failed,
                  next_msg, n_cmds, freed >>
  /\ UNCHANGED armVars
  /\ UNCHANGED escVars
  /\ UNCHANGED orconnVars

\* variant: the flag is set without the in_main_thread() test, the activation
\* is still made on the main thread only
PublishCritical_FlagAnyThread(t) ==
  /\ Running /\ pc[t] = "pub_critical"
  /\ ~queued_control_events.null
  /\ queued_control_events' =
       [queued_control_events EXCEPT !.list = Append(@, cur[t])]
  /\ enq_log' = Append(enq_log,
       [msg |-> cur[t].msg, event |-> cur[t].event, thread |-> t,
        drain |-> FALSE, interesting |-> EVENT_IS_INTERESTING(cur[t].event),
        activate |-> ~flush_queued_event_pending /\ in_main_thread(t)])
  /\ flush_queued_event_pending' = TRUE
  /\ flush_queued_events_event' =
       IF ~flush_queued_event_pending /\ in_main_thread(t)
            /\ flush_queued_events_event # "null"
       THEN "active" ELSE flush_queued_events_event
  /\ lock_holder' = NoThread
  /\ block_event_queue' = [block_event_queue EXCEPT ![t] = @ - 1]
  /\ pc' = [pc EXCEPT ![t] = "idle"]
  /\ cur' = [cur EXCEPT ![t] = NoEvent]
  /\ UNCHANGED << global_event_mask, connVars, lock_exists, queued_events,
                  old_mask, cmd_conn, assert_failed, next_msg, n_cmds, freed >>
  /\ UNCHANGED armVars
  /\ UNCHANGED escVars
  /\ UNCHANGED orconnVars

\* variant: the activation is decided without the in_main_thread() test
PublishCritical_AnyThread(t) ==
  /\ Running /\ pc[t] = "pub_critical"
  /\ ~queued_control_events.null
  /\ queued_control_events' =
       [queued_control_events EXCEPT !.list = Append(@, cur[t])]
  /\ enq_log' = Append(enq_log,
       [msg |-> cur[t].msg, event |-> cur[t].event, thread |-> t,
        drain |-> FALSE, interesting |-> EVENT_IS_INTERESTING(cur[t].event),
        activate |-> ~flush_queued_event_pending])
  /\ flush_queued_event_pending' = TRUE
  /\ flush_queued_events_event' =
       IF ~flush_queued_event_pending /\ flush_queued_events_event # "null"
       THEN "active" ELSE flush_queued_events_event
  /\ lock_holder' = NoThread
  /\ block_event_queue' = [block_event_queue EXCEPT ![t] = @ - 1]
  /\ pc' = [pc EXCEPT ![t] = "idle"]
  /\ cur' = [cur EXCEPT ![t] = NoEvent]
  /\ UNCHANGED << global_event_mask, connVars, lock_exists, queued_events,
                  old_mask, cmd_conn, assert_failed, next_msg, n_cmds, freed >>
  /\ UNCHANGED armVars
  /\ UNCHANGED escVars
  /\ UNCHANGED orconnVars

\* the section under the mutex (tor_assert, smartlist_add, the decision to
\* activate, tor_mutex_release), then --*block_event_queue and the activation
\* of the flush event, which only the main thread touches
PublishCritical(t) ==
  /\ Running /\ pc[t] = "pub_critical"
  /\ IF queued_control_events.null
       THEN /\ assert_failed' = "tor_assert(queued_control_events)"
            /\ UNCHANGED << queueVars, lock_holder, pc, cur, enq_log,
                            block_event_queue, flush_queued_events_event >>
       ELSE /\ queued_control_events' =
                 [queued_control_events EXCEPT !.list = Append(@, cur[t])]
            /\ enq_log' = Append(enq_log,
                 [msg |-> cur[t].msg, event |-> cur[t].event, thread |-> t,
                  drain |-> FALSE, interesting |-> EVENT_IS_INTERESTING(cur[t].event),
                  activate |-> ~flush_queued_event_pending /\ in_main_thread(t)])
            /\ flush_queued_event_pending' =
                 IF ~flush_queued_event_pending /\ in_main_thread(t)
                 THEN TRUE ELSE flush_queued_event_pending
            /\ lock_holder' = NoThread
            /\ block_event_queue' = [block_event_queue EXCEPT ![t] = @ - 1]
            /\ IF ~flush_queued_event_pending /\ in_main_thread(t)
                 THEN IF flush_queued_events_event = "null"
                        THEN /\ assert_failed' = "tor_assert(flush_queued_events_event)"
                             /\ UNCHANGED << flush_queued_events_event, pc, cur >>
                        ELSE /\ flush_queued_events_event' = "active"
                             /\ pc' = [pc EXCEPT ![t] = "idle"]
                             /\ cur' = [cur EXCEPT ![t] = NoEvent]
                             /\ UNCHANGED assert_failed
                 ELSE /\ pc' = [pc EXCEPT ![t] = "idle"]
                      /\ cur' = [cur EXCEPT ![t] = NoEvent]
                      /\ UNCHANGED << flush_queued_events_event, assert_failed >>
  /\ UNCHANGED << global_event_mask, connVars, lock_exists, queued_events,
                  old_mask, cmd_conn, next_msg, n_cmds, freed >>
  /\ UNCHANGED armVars
  /\ UNCHANGED escVars
  /\ UNCHANGED orconnVars

\* the positions inside publish and inside flush at which the thread calls out
\* (smartlist_add under the mutex, connection_buf_add in the delivery loop)
InsidePublishOrFlush(t) ==
  pc[t] \in { "pub_critical", "flush_deliver" }

\* publish called again on thread t from inside publish or flush (a log
\* callback run on that thread): the whole call
ReentrantPublish(t, ev) ==
  /\ Running /\ InsidePublishOrFlush(t)
  /\ next_msg < MaxMsgs
  /\ next_msg' = next_msg + 1
  /\ IF PublishAdmits(t, ev)
       THEN IF queued_control_events.null
              THEN /\ assert_failed' = "tor_assert(queued_control_events)"
                   /\ UNCHANGED << queueVars, enq_log, flush_queued_events_event, freed >>
              ELSE /\ queued_control_events' =
                        [queued_control_events EXCEPT
                           !.list = Append(@, [event |-> ev, msg |-> next_msg + 1])]
                   /\ enq_log' = Append(enq_log,
                        [msg |-> next_msg + 1, event |-> ev, thread |-> t,
                         drain |-> FALSE, interesting |-> EVENT_IS_INTERESTING(ev),
                         activate |-> ~flush_queued_event_pending /\ in_main_thread(t)])
                   /\ flush_queued_event_pending' =
                        (flush_queued_event_pending \/ in_main_thread(t))
                   /\ flush_queued_events_event' =
                        IF ~flush_queued_event_pending /\ in_main_thread(t)
                             /\ flush_queued_events_event # "null"
                        THEN "active" ELSE flush_queued_events_event
                   /\ assert_failed' =
                        IF ~flush_queued_event_pending /\ in_main_thread(t)
                             /\ flush_queued_events_event = "null"
                        THEN "tor_assert(flush_queued_events_event)" ELSE assert_failed
                   /\ freed' = freed
       ELSE /\ freed' = freed \cup { Dropped(next_msg + 1, ev) }
            /\ UNCHANGED << queueVars, enq_log, flush_queued_events_event, assert_failed >>
  /\ UNCHANGED << global_event_mask, connVars, lock_exists, lock_holder,
                  block_event_queue, pc, cur, queued_events,
                  old_mask, cmd_conn, n_cmds >>
  /\ UNCHANGED armVars
  /\ UNCHANGED escVars
  /\ UNCHANGED orconnVars


(* ---------------------------------------------------------------------- *)
(* control_update_global_event_mask and handle_control_setevents           *)
(* ---------------------------------------------------------------------- *)
\* variant: connections marked for close are skipped as well
UpdatedGlobalMask_SkipMarked ==
  UNION { event_mask[c] : c \in { d \in Conns : /\ ConnType[d] = "CONTROL"
                                               /\ STATE_IS_OPEN(conn_state[d])
                                               /\ ~marked_for_close[d] } }

\* variant: the state of the connection is not tested
UpdatedGlobalMask_AnyState ==
  UNION { event_mask[c] : c \in { d \in Conns : ConnType[d] = "CONTROL" } }

\* the loop of control_update_global_event_mask: the OR of event_mask over
\* the control connections whose state is open
UpdatedGlobalMask ==
  UNION { event_mask[c] : c \in { d \in Conns : /\ ConnType[d] = "CONTROL"
                                               /\ STATE_IS_OPEN(conn_state[d]) } }

event_to_log_severity(event) ==
  CASE event = EVENT_DEBUG_MSG -> "LOG_DEBUG"
    [] event = EVENT_INFO_MSG -> "LOG_INFO"
    [] event = EVENT_NOTICE_MSG -> "LOG_NOTICE"
    [] event = EVENT_WARN_MSG -> "LOG_WARN"
    [] event = EVENT_ERR_MSG -> "LOG_ERR"
    [] OTHER -> "-1"

log_severity_to_event(severity) ==
  CASE severity = "LOG_DEBUG" -> EVENT_DEBUG_MSG
    [] severity = "LOG_INFO" -> EVENT_INFO_MSG
    [] severity = "LOG_NOTICE" -> EVENT_NOTICE_MSG
    [] severity = "LOG_WARN" -> EVENT_WARN_MSG
    [] severity = "LOG_ERR" -> EVENT_ERR_MSG
    [] OTHER -> -1

LogEvents == EVENT_DEBUG_MSG .. EVENT_ERR_MSG

\* variant: the search upwards starts from DEBUG as its default
MinLogEvent_DefaultDebug(mask) ==
  LET hit == { i \in LogEvents : i \in mask }
  IN IF hit = {} THEN EVENT_DEBUG_MSG ELSE CHOOSE i \in hit : \A j \in hit : i <= j

\* first loop of control_adjust_event_log_severity: upwards from DEBUG
MinLogEvent(mask) ==
  LET hit == { i \in LogEvents : i \in mask }
  IN IF hit = {} THEN EVENT_ERR_MSG ELSE CHOOSE i \in hit : \A j \in hit : i <= j

\* second loop: downwards from ERR
MaxLogEvent(mask) ==
  LET hit == { i \in LogEvents : i \in mask }
  IN IF hit = {} THEN EVENT_DEBUG_MSG ELSE CHOOSE i \in hit : \A j \in hit : i >= j

\* variant: STATUS_GENERAL does not widen the window
control_adjust_event_log_severity_NoWiden(mask) ==
  LET min_log_event == MinLogEvent(mask)
      max_log_event == MaxLogEvent(mask)
  IN IF min_log_event <= max_log_event
       THEN [loglevelMin |-> event_to_log_severity(min_log_event),
             loglevelMax |-> event_to_log_severity(max_log_event)]
       ELSE [loglevelMin |-> "LOG_ERR", loglevelMax |-> "LOG_ERR"]

\* control_adjust_event_log_severity on the global mask `mask`: the
\* arguments given to change_callback_log_severity
control_adjust_event_log_severity(mask) ==
  LET min0 == MinLogEvent(mask)
      max0 == MaxLogEvent(mask)
      general == EVENT_STATUS_GENERAL \in mask
      min_log_event == IF general /\ min0 > EVENT_NOTICE_MSG
                         THEN EVENT_NOTICE_MSG ELSE min0
      max_log_event == IF general /\ max0 < EVENT_ERR_MSG
                         THEN EVENT_ERR_MSG ELSE max0
  IN IF min_log_event <= max_log_event
       THEN [loglevelMin |-> event_to_log_severity(min_log_event),
             loglevelMax |-> event_to_log_severity(max_log_event)]
       ELSE [loglevelMin |-> "LOG_ERR", loglevelMax |-> "LOG_ERR"]

PerSecondEvents ==
  EVENT_MASK_(EVENT_BANDWIDTH_USED) \cup EVENT_MASK_(EVENT_CELL_STATS)
    \cup EVENT_MASK_(EVENT_CIRC_BANDWIDTH_USED) \cup EVENT_MASK_(EVENT_CONN_BW)
    \cup EVENT_MASK_(EVENT_STREAM_BANDWIDTH_USED)

\* control_any_per_second_event_enabled when the global mask is `mask`
control_any_per_second_event_enabled(mask) == (mask \cap PerSecondEvents) # {}

\* variant: the bit only has to be set now
NEWLY_ENABLED_SetNow(old, new, ev) == ev \in new

NEWLY_ENABLED(old, new, ev) == ev \notin old /\ ev \in new

\* clear_circ_bw_fields: the counters of the circuits after the call
clear_circ_bw_fields ==
  [k \in Circs |-> IF CIRCUIT_IS_ORIGIN(k)
                     THEN [f \in CircBwFields |-> 0]
                     ELSE circ_bw[k]]

\* variant: the scheduler is told whenever a per-second event is enabled
RescanNeeded_WhenEnabled(old, new) == control_any_per_second_event_enabled(new)

\* the test before rescan_periodic_events
RescanNeeded(old, new) ==
  control_any_per_second_event_enabled(old)
    # control_any_per_second_event_enabled(new)

\* index of the first entry of control_event_table whose name matches ev, or 0
LookupEvent(ev) ==
  LET hits == { i \in DOMAIN control_event_table :
                  strcasecmp_eq(ev, control_event_table[i].event_name) }
  IN IF hits = {} THEN 0 ELSE CHOOSE i \in hits : \A j \in hits : i <= j

IsLegacyName(ev) ==
  strcasecmp_eq(ev, "EXTENDED") \/ strcasecmp_eq(ev, "AUTHDIR_NEWDESCS")

\* variant: a name that is not in the table is skipped like a legacy name
RECURSIVE ParseEvents_SkipUnknown(_, _, _)
ParseEvents_SkipUnknown(body, i, mask) ==
  IF i > Len(body) THEN [ok |-> TRUE, mask |-> mask, bad |-> ""]
  ELSE IF IsLegacyName(body[i]) \/ LookupEvent(body[i]) = 0
  THEN ParseEvents_SkipUnknown(body, i + 1, mask)
  ELSE ParseEvents_SkipUnknown(body, i + 1,
         mask \cup EVENT_MASK_(control_event_table[LookupEvent(body[i])].event_code))

\* the loop of handle_control_setevents over the names, from name i on, with
\* the mask accumulated so far
RECURSIVE ParseEvents(_, _, _)
ParseEvents(body, i, mask) ==
  IF i > Len(body) THEN [ok |-> TRUE, mask |-> mask, bad |-> ""]
  ELSE IF IsLegacyName(body[i]) THEN ParseEvents(body, i + 1, mask)
  ELSE IF LookupEvent(body[i]) = 0 THEN [ok |-> FALSE, mask |-> mask, bad |-> body[i]]
  ELSE ParseEvents(body, i + 1,
         mask \cup EVENT_MASK_(control_event_table[LookupEvent(body[i])].event_code))

\* "552 Unrecognized event \"%s\"\r\n"
Unrecognized(ev) == "552 Unrecognized event \"" \o ev \o "\"\r\n"

Reply(text) == [kind |-> "reply", msg |-> 0, text |-> text]
EventItem(m) == [kind |-> "event", msg |-> m, text |-> ""]

\* variant: the bits of the command are ORed into the connection's mask
StoredMask_Ored(c, m) == event_mask[c] \cup m

\* conn->event_mask = event_mask
StoredMask(c, m) == m

\* handle_control_setevents up to the first statements of
\* control_update_global_event_mask (old_mask saved, global_event_mask zeroed)
handle_control_setevents(c, body) ==
  /\ Running /\ pc[Main] = "idle"
  /\ ConnType[c] = "CONTROL"
  /\ n_cmds < MaxCmds
  /\ n_cmds' = n_cmds + 1
  /\ LET r == ParseEvents(body, 1, {})
     IN IF ~r.ok
          THEN /\ outbuf' = [outbuf EXCEPT ![c] =
                    Append(@, Reply(Unrecognized(r.bad)))]
               /\ UNCHANGED << event_mask, global_event_mask, old_mask, cmd_conn,
                               pc, cmd_body >>
          ELSE /\ event_mask' = [event_mask EXCEPT ![c] = StoredMask(c, r.mask)]
               /\ old_mask' = global_event_mask
               /\ global_event_mask' = {}
               /\ cmd_conn' = c
               /\ cmd_body' = body
               /\ pc' = [pc EXCEPT ![Main] = "recompute"]
               /\ UNCHANGED outbuf
  /\ UNCHANGED << conn_state, marked_for_close, queueVars, lock_exists,
                  lock_holder, flush_queued_events_event, block_event_queue,
                  cur, queued_events, assert_failed, next_msg,
                  histVars >>
  /\ UNCHANGED << log_callback, circ_bw, edge_bw, recompute_calls >>
  /\ UNCHANGED escVars
  /\ UNCHANGED orconnVars

\* variant: the handler writes the queued events the client now wants before
\* its reply
RecomputeFinish_FlushesFirst ==
  /\ Running /\ pc[Main] = "recompute"
  /\ global_event_mask' = UpdatedGlobalMask
  /\ outbuf' = [outbuf EXCEPT ![cmd_conn] =
        LET sel == SelectSeq(queued_control_events.list,
                      LAMBDA e : e.event \in event_mask[cmd_conn])
        IN Append(@ \o [i \in 1 .. Len(sel) |-> EventItem(sel[i].msg)],
                  Reply("250 OK"))]
  /\ pc' = [pc EXCEPT ![Main] = "idle"]
  /\ cmd_conn' = 0
  /\ old_mask' = {}
  /\ cmd_body' = << >>
  /\ log_callback' = control_adjust_event_log_severity(UpdatedGlobalMask)
  /\ edge_bw' = IF NEWLY_ENABLED(old_mask, UpdatedGlobalMask,
                                 EVENT_STREAM_BANDWIDTH_USED)
                  THEN [c \in ApConns |-> [f \in EdgeBwFields |-> 0]]
                  ELSE edge_bw
  /\ circ_bw' = IF NEWLY_ENABLED(old_mask, UpdatedGlobalMask,
                                 EVENT_CIRC_BANDWIDTH_USED)
                  THEN clear_circ_bw_fields
                  ELSE circ_bw
  /\ recompute_calls' =
       (IF NEWLY_ENABLED(old_mask, UpdatedGlobalMask, EVENT_BANDWIDTH_USED)
          THEN { "control_get_bytes_rw_last_sec" } ELSE {})
       \cup (IF NEWLY_ENABLED(old_mask, UpdatedGlobalMask,
                              EVENT_CIRC_BANDWIDTH_USED)
               THEN { "clear_circ_bw_fields" } ELSE {})
       \cup (IF RescanNeeded(old_mask, UpdatedGlobalMask)
               THEN { "rescan_periodic_events" } ELSE {})
  /\ UNCHANGED << conn_state, marked_for_close, event_mask, queueVars,
                  lock_exists, lock_holder, flush_queued_events_event,
                  block_event_queue, cur, queued_events,
                  assert_failed, next_msg, n_cmds, histVars >>
  /\ UNCHANGED escVars
  /\ UNCHANGED orconnVars

\* the rest of control_update_global_event_mask, then send_control_done
RecomputeFinish ==
  /\ Running /\ pc[Main] = "recompute"
  /\ global_event_mask' = UpdatedGlobalMask
  /\ outbuf' = [outbuf EXCEPT ![cmd_conn] = Append(@, Reply("250 OK"))]
  /\ pc' = [pc EXCEPT ![Main] = "idle"]
  /\ cmd_conn' = 0
  /\ old_mask' = {}
  /\ cmd_body' = << >>
  /\ log_callback' = control_adjust_event_log_severity(UpdatedGlobalMask)
  /\ edge_bw' = IF NEWLY_ENABLED(old_mask, UpdatedGlobalMask,
                                 EVENT_STREAM_BANDWIDTH_USED)
                  THEN [c \in ApConns |-> [f \in EdgeBwFields |-> 0]]
                  ELSE edge_bw
  /\ circ_bw' = IF NEWLY_ENABLED(old_mask, UpdatedGlobalMask,
                                 EVENT_CIRC_BANDWIDTH_USED)
                  THEN clear_circ_bw_fields
                  ELSE circ_bw
  /\ recompute_calls' =
       (IF NEWLY_ENABLED(old_mask, UpdatedGlobalMask, EVENT_BANDWIDTH_USED)
          THEN { "control_get_bytes_rw_last_sec" } ELSE {})
       \cup (IF NEWLY_ENABLED(old_mask, UpdatedGlobalMask,
                              EVENT_CIRC_BANDWIDTH_USED)
               THEN { "clear_circ_bw_fields" } ELSE {})
       \cup (IF RescanNeeded(old_mask, UpdatedGlobalMask)
               THEN { "rescan_periodic_events" } ELSE {})
  /\ UNCHANGED << conn_state, marked_for_close, event_mask, queueVars,
                  lock_exists, lock_holder, flush_queued_events_event,
                  block_event_queue, cur, queued_events,
                  assert_failed, next_msg, n_cmds, histVars >>
  /\ UNCHANGED escVars
  /\ UNCHANGED orconnVars

\* traffic on a circuit: its bandwidth counters become non-zero
CircuitTraffic(k) ==
  /\ Running
  /\ circ_bw[k] # [f \in CircBwFields |-> 1]
  /\ circ_bw' = [circ_bw EXCEPT ![k] = [f \in CircBwFields |-> 1]]
  /\ UNCHANGED << global_event_mask, connVars, queueVars, lock_exists,
                  lock_holder, flush_queued_events_event, block_event_queue,
                  pc, cur, queued_events, old_mask, cmd_conn, assert_failed,
                  next_msg, n_cmds, histVars, log_callback, edge_bw,
                  recompute_calls, cmd_body >>
  /\ UNCHANGED escVars
  /\ UNCHANGED orconnVars

\* traffic on an application stream: its byte counters become non-zero
StreamTraffic(c) ==
  /\ Running
  /\ edge_bw[c] # [f \in EdgeBwFields |-> 1]
  /\ edge_bw' = [edge_bw EXCEPT ![c] = [f \in EdgeBwFields |-> 1]]
  /\ UNCHANGED << global_event_mask, connVars, queueVars, lock_exists,
                  lock_holder, flush_queued_events_event, block_event_queue,
                  pc, cur, queued_events, old_mask, cmd_conn, assert_failed,
                  next_msg, n_cmds, histVars, log_callback, circ_bw,
                  recompute_calls, cmd_body >>
  /\ UNCHANGED escVars
  /\ UNCHANGED orconnVars

(* ---------------------------------------------------------------------- *)
(* control_event_logmsg_pending                                            *)
(* ---------------------------------------------------------------------- *)
control_event_logmsg_pending(t) ==
  /\ Running /\ pc[t] = "idle"
  /\ IF ~in_main_thread(t)
       THEN UNCHANGED << flush_queued_events_event, assert_failed >>
       ELSE IF flush_queued_events_event = "null"
              THEN /\ assert_failed' = "tor_assert(flush_queued_events_event)"
                   /\ UNCHANGED flush_queued_events_event
              ELSE /\ flush_queued_events_event' = "active"
                   /\ UNCHANGED assert_failed
  /\ UNCHANGED << global_event_mask, connVars, queueVars, lock_exists,
                  lock_holder, block_event_queue, pc, cur, queued_events, old_mask, cmd_conn, next_msg, n_cmds, histVars >>
  /\ UNCHANGED armVars
  /\ UNCHANGED escVars
  /\ UNCHANGED orconnVars

(* ---------------------------------------------------------------------- *)
(* flush_queued_events_cb / queued_events_flush_all                        *)
(* ---------------------------------------------------------------------- *)
\* variant: ++*block_event_queue comes before flush_pending_log_callbacks()
FlushBegin_GuardFirst ==
  /\ Running /\ pc[Main] = "idle"
  /\ flush_queued_events_event = "active"
  /\ flush_queued_events_event' = "idle"
  /\ block_event_queue' = [block_event_queue EXCEPT ![Main] = @ + 1]
  /\ pc' = [pc EXCEPT ![Main] = "flush_drain"]
  /\ UNCHANGED << global_event_mask, connVars, queueVars, lock_exists,
                  lock_holder, cur, queued_events, old_mask,
                  cmd_conn, assert_failed, next_msg, n_cmds, freed, enq_log >>
  /\ UNCHANGED armVars
  /\ UNCHANGED escVars
  /\ UNCHANGED orconnVars

\* the mainloop runs the activated event: flush_queued_events_cb enters
\* queued_events_flush_all, which starts with flush_pending_log_callbacks()
FlushBegin ==
  /\ Running /\ pc[Main] = "idle"
  /\ flush_queued_events_event = "active"
  /\ flush_queued_events_event' = "idle"
  /\ pc' = [pc EXCEPT ![Main] = "flush_drain"]
  /\ UNCHANGED << global_event_mask, connVars, queueVars, lock_exists,
                  lock_holder, block_event_queue, cur, queued_events, old_mask,
                  cmd_conn, assert_failed, next_msg, n_cmds, freed, enq_log >>
  /\ UNCHANGED armVars
  /\ UNCHANGED escVars
  /\ UNCHANGED orconnVars

\* flush_pending_log_callbacks() hands one pending log message to the control
\* log callback, which publishes it with code ev: the whole call of
\* queue_control_event_string on the main thread
FlushDrainPublish(ev) ==
  /\ Running /\ pc[Main] = "flush_drain"
  /\ next_msg < MaxMsgs
  /\ next_msg' = next_msg + 1
  /\ IF ~PublishAdmits(Main, ev)
       THEN /\ freed' = freed \cup { Dropped(next_msg + 1, ev) }
            /\ UNCHANGED << queueVars, enq_log, flush_queued_events_event,
                            assert_failed >>
       ELSE IF ~lock_exists
       THEN /\ assert_failed' = "tor_mutex_acquire(NULL)"
            /\ UNCHANGED << queueVars, enq_log, flush_queued_events_event, freed >>
       ELSE IF queued_control_events.null
       THEN /\ lock_holder = NoThread
            /\ assert_failed' = "tor_assert(queued_control_events)"
            /\ UNCHANGED << queueVars, enq_log, flush_queued_events_event, freed >>
       ELSE /\ lock_holder = NoThread
            /\ queued_control_events' =
                 [queued_control_events EXCEPT
                    !.list = Append(@, [event |-> ev, msg |-> next_msg + 1])]
            /\ enq_log' = Append(enq_log,
                 [msg |-> next_msg + 1, event |-> ev, thread |-> Main,
                  drain |-> TRUE, interesting |-> EVENT_IS_INTERESTING(ev),
                  activate |-> ~flush_queued_event_pending])
            /\ flush_queued_event_pending' = TRUE
            /\ flush_queued_events_event' =
                 IF ~flush_queued_event_pending THEN "active"
                 ELSE flush_queued_events_event
            /\ UNCHANGED << freed, assert_failed >>
  /\ UNCHANGED << global_event_mask, connVars, lock_exists, lock_holder,
                  block_event_queue, pc, cur, queued_events, old_mask,
                  cmd_conn, n_cmds >>
  /\ UNCHANGED armVars
  /\ UNCHANGED escVars
  /\ UNCHANGED orconnVars

\* after the drain: the test for a missing queue and ++*block_event_queue
FlushDrainDone ==
  /\ Running /\ pc[Main] = "flush_drain"
  /\ IF queued_control_events.null
       THEN /\ pc' = [pc EXCEPT ![Main] = "idle"]
            /\ UNCHANGED block_event_queue
       ELSE /\ block_event_queue' = [block_event_queue EXCEPT ![Main] = @ + 1]
            /\ pc' = [pc EXCEPT ![Main] = "flush_swap"]
  /\ UNCHANGED << global_event_mask, connVars, queueVars, lock_exists,
                  lock_holder, flush_queued_events_event, cur, queued_events,
                  old_mask, cmd_conn, assert_failed, next_msg, n_cmds, freed,
                  enq_log >>
  /\ UNCHANGED armVars
  /\ UNCHANGED escVars
  /\ UNCHANGED orconnVars

\* tor_mutex_acquire; the flag is cleared and the queue replaced by a new
\* list; tor_mutex_release
\* variant: the flush takes the list and leaves it in place as the queue
FlushSwap_KeepsQueue ==
  /\ Running /\ pc[Main] = "flush_swap"
  /\ lock_holder = NoThread
  /\ flush_queued_event_pending' = FALSE
  /\ queued_events' = queued_control_events.list
  /\ pc' = [pc EXCEPT ![Main] = "flush_deliver"]
  /\ UNCHANGED << global_event_mask, connVars, lock_exists, lock_holder,
                  flush_queued_events_event, block_event_queue, cur,
                  old_mask, cmd_conn, assert_failed, next_msg,
                  n_cmds, freed, enq_log, queued_control_events >>
  /\ UNCHANGED armVars
  /\ UNCHANGED escVars
  /\ UNCHANGED orconnVars

\* variant: the flush takes the queue and leaves flush_queued_event_pending set
FlushSwap_KeepsFlag ==
  /\ Running /\ pc[Main] = "flush_swap"
  /\ lock_holder = NoThread
  /\ UNCHANGED flush_queued_event_pending
  /\ queued_events' = queued_control_events.list
  /\ queued_control_events' = NewQueue
  /\ pc' = [pc EXCEPT ![Main] = "flush_deliver"]
  /\ UNCHANGED << global_event_mask, connVars, lock_exists, lock_holder,
                  flush_queued_events_event, block_event_queue, cur,
                  old_mask, cmd_conn, assert_failed, next_msg,
                  n_cmds, freed, enq_log >>
  /\ UNCHANGED armVars
  /\ UNCHANGED escVars
  /\ UNCHANGED orconnVars

FlushSwap ==
  /\ Running /\ pc[Main] = "flush_swap"
  /\ lock_holder = NoThread
  /\ flush_queued_event_pending' = FALSE
  /\ queued_events' = queued_control_events.list
  /\ queued_control_events' = NewQueue
  /\ pc' = [pc EXCEPT ![Main] = "flush_deliver"]
  /\ UNCHANGED << global_event_mask, connVars, lock_exists, lock_holder,
                  flush_queued_events_event, block_event_queue, cur,
                  old_mask, cmd_conn, assert_failed, next_msg,
                  n_cmds, freed, enq_log >>
  /\ UNCHANGED armVars
  /\ UNCHANGED escVars
  /\ UNCHANGED orconnVars

\* variant: marked_for_close is not tested
FlushControllers_NoMarked ==
  { c \in Conns : /\ ConnType[c] = "CONTROL"
                  /\ conn_state[c] = "OPEN" }

\* "Gather all the controllers that will care"
FlushControllers ==
  { c \in Conns : /\ ConnType[c] = "CONTROL"
                  /\ ~marked_for_close[c]
                  /\ conn_state[c] = "OPEN" }

\* variant: the batch is walked from its last event to its first
FlushWrites_Reversed(c, batch) ==
  LET sel == SelectSeq(batch, LAMBDA e : (event_mask[c] \cap {e.event}) # {})
  IN [i \in 1..Len(sel) |-> EventItem(sel[Len(sel) + 1 - i].msg)]

\* what the delivery loop adds to the outbuf of controller c for the batch
FlushWrites(c, batch) ==
  LET sel == SelectSeq(batch, LAMBDA e : (event_mask[c] \cap {e.event}) # {})
  IN [i \in 1..Len(sel) |-> EventItem(sel[i].msg)]

\* variant: the flush returns without lowering the guard
FlushDeliver_KeepsGuard ==
  /\ Running /\ pc[Main] = "flush_deliver"
  /\ outbuf' = [c \in Conns |->
        IF c \in FlushControllers
        THEN outbuf[c] \o FlushWrites(c, queued_events) ELSE outbuf[c]]
  /\ freed' = freed \cup { [msg |-> queued_events[i].msg, why |-> "flushed"] :
                              i \in DOMAIN queued_events }
  /\ queued_events' = << >>
  /\ UNCHANGED block_event_queue
  /\ pc' = [pc EXCEPT ![Main] = "idle"]
  /\ UNCHANGED << global_event_mask, conn_state, marked_for_close, event_mask,
                  queueVars, lock_exists, lock_holder, flush_queued_events_event,
                  cur, old_mask, cmd_conn, assert_failed,
                  next_msg, n_cmds, enq_log >>
  /\ UNCHANGED armVars
  /\ UNCHANGED escVars
  /\ UNCHANGED orconnVars

\* the controllers are gathered, every event of the batch is written to the
\* interested ones and freed, then --*block_event_queue
FlushDeliver ==
  /\ Running /\ pc[Main] = "flush_deliver"
  /\ outbuf' = [c \in Conns |->
        IF c \in FlushControllers
        THEN outbuf[c] \o FlushWrites(c, queued_events) ELSE outbuf[c]]
  /\ freed' = freed \cup { [msg |-> queued_events[i].msg, why |-> "flushed"] :
                              i \in DOMAIN queued_events }
  /\ queued_events' = << >>
  /\ block_event_queue' = [block_event_queue EXCEPT ![Main] = @ - 1]
  /\ pc' = [pc EXCEPT ![Main] = "idle"]
  /\ UNCHANGED << global_event_mask, conn_state, marked_for_close, event_mask,
                  queueVars, lock_exists, lock_holder, flush_queued_events_event,
                  cur, old_mask, cmd_conn, assert_failed,
                  next_msg, n_cmds, enq_log >>
  /\ UNCHANGED armVars
  /\ UNCHANGED escVars
  /\ UNCHANGED orconnVars

(* ---------------------------------------------------------------------- *)
(* control_events_free_all                                                 *)
(* ---------------------------------------------------------------------- *)
\* variant: the flag is not cleared
FreeAllDetach_KeepsFlag ==
  /\ Running /\ pc[Main] = "idle"
  /\ IF lock_exists
       THEN /\ lock_holder = NoThread
            /\ queued_events' = queued_control_events.list
            /\ queued_control_events' = NullQueue
       ELSE UNCHANGED << queued_control_events, queued_events >>
  /\ pc' = [pc EXCEPT ![Main] = "free_rest"]
  /\ UNCHANGED << global_event_mask, connVars, flush_queued_event_pending,
                  lock_exists, lock_holder,
                  flush_queued_events_event, block_event_queue, cur,
                  old_mask, cmd_conn, assert_failed, next_msg,
                  n_cmds, freed, enq_log >>
  /\ UNCHANGED armVars
  /\ UNCHANGED escVars
  /\ UNCHANGED orconnVars

\* when the mutex exists: tor_mutex_acquire; the flag is cleared and the queue
\* detached; tor_mutex_release
FreeAllDetach ==
  /\ Running /\ pc[Main] = "idle"
  /\ IF lock_exists
       THEN /\ lock_holder = NoThread
            /\ flush_queued_event_pending' = FALSE
            /\ queued_events' = queued_control_events.list
            /\ queued_control_events' = NullQueue
       ELSE UNCHANGED << queueVars, queued_events >>
  /\ pc' = [pc EXCEPT ![Main] = "free_rest"]
  /\ UNCHANGED << global_event_mask, connVars, lock_exists, lock_holder,
                  flush_queued_events_event, block_event_queue, cur,
                  old_mask, cmd_conn, assert_failed, next_msg,
                  n_cmds, freed, enq_log >>
  /\ UNCHANGED armVars
  /\ UNCHANGED escVars
  /\ UNCHANGED orconnVars

\* the detached events are freed, the mainloop event is freed, the global
\* mask is zeroed
FreeAllRest ==
  /\ Running /\ pc[Main] = "free_rest"
  /\ freed' = freed \cup { [msg |-> queued_events[i].msg, why |-> "free_all"] :
                              i \in DOMAIN queued_events }
  /\ queued_events' = << >>
  /\ flush_queued_events_event' = "null"
  /\ global_event_mask' = {}
  /\ pc' = [pc EXCEPT ![Main] = "idle"]
  /\ UNCHANGED << connVars, queueVars, lock_exists, lock_holder,
                  block_event_queue, cur, old_mask, cmd_conn,
                  assert_failed, next_msg, n_cmds, enq_log >>
  /\ UNCHANGED armVars
  /\ UNCHANGED escVars
  /\ UNCHANGED orconnVars

(* ---------------------------------------------------------------------- *)
(* Specification                                                           *)
(* ---------------------------------------------------------------------- *)
\* The dispatcher under concurrency: the main thread and a producer thread,
\* one authenticated control connection that subscribes to and unsubscribes
\* from ORCONN, initialization and teardown.
Next ==
  \/ \E b \in BOOLEAN : control_initialize_event_queue(b)
  \/ \E t \in Threads : PublishCheck(t, EVENT_OR_CONN_STATUS)
  \/ \E t \in Threads : PublishAcquire(t)
  \/ \E t \in Threads : PublishCritical(t)
  \/ \E t \in Threads : ReentrantPublish(t, EVENT_OR_CONN_STATUS)
  \/ \E body \in DispatchBodies : handle_control_setevents(DispatchConn, body)
  \/ RecomputeFinish
  \/ \E t \in Threads : control_event_logmsg_pending(t)
  \/ FlushBegin
  \/ FlushDrainDone
  \/ FlushSwap
  \/ FlushDeliver
  \/ FreeAllDetach
  \/ FreeAllRest

Spec == Init /\ [][Next]_vars

\* The registry and the delivery on the main thread alone: every control
\* connection issues commands, authenticates and is marked for close.
NextReg ==
  \/ \E c \in Conns : ConnAuthenticated(c)
  \/ \E c \in Conns : ConnMarkForClose(c)
  \/ control_initialize_event_queue(TRUE)
  \/ \E ev \in PublishEvents :
       next_msg + n_cmds < MaxRegOps /\ PublishCheck(Main, ev)
  \/ PublishAcquire(Main)
  \/ PublishCritical(Main)
  \/ \E c \in Conns, body \in Bodies :
       next_msg + n_cmds < MaxRegOps /\ handle_control_setevents(c, body)
  \/ RecomputeFinish
  \/ FlushBegin
  \/ \E ev \in DrainEvents :
       next_msg + n_cmds < MaxRegOps /\ FlushDrainPublish(ev)
  \/ FlushDrainDone
  \/ FlushSwap
  \/ FlushDeliver
  \/ FreeAllDetach
  \/ FreeAllRest

SpecReg == Init /\ [][NextReg]_vars

\* the command dispatcher hands SETEVENTS to the handler for a control
\* connection that has authenticated and is not being closed
CanCommand(c) ==
  /\ ConnType[c] = "CONTROL"
  /\ STATE_IS_OPEN(conn_state[c])
  /\ ~marked_for_close[c]

CmdBodies ==
  { << >>, << "WARN" >>, << "WARN", "STATUS_GENERAL" >>, << "STATUS_GENERAL" >>,
    << "DEBUG", "STATUS_GENERAL" >>, << "INFO", "NOTICE" >>, << "ERR" >>,
    << "BW" >>, << "CIRC_BW" >>, << "STREAM_BW" >>,
    << "CIRC_BW", "STREAM_BW" >>, << "CELL_STATS" >>, << "CONN_BW", "WARN" >> }

\* the registry under commands of authenticated clients, with traffic on
\* the circuits and streams
NextCmd ==
  \/ \E c \in Conns : ConnAuthenticated(c)
  \/ \E k \in Circs : CircuitTraffic(k)
  \/ \E c \in ApConns : StreamTraffic(c)
  \/ \E c \in Conns, body \in CmdBodies :
        CanCommand(c) /\ handle_control_setevents(c, body)
  \/ RecomputeFinish

SpecCmd == Init /\ [][NextCmd]_vars

TypeOK ==
  /\ global_event_mask \subseteq 1..35
  /\ \A t \in Threads : block_event_queue[t] \in 0..1
  /\ lock_holder \in Threads \cup {NoThread}

(* ---------------------------------------------------------------------- *)
(* Properties                                                              *)
(* ---------------------------------------------------------------------- *)
\* every event code of control_event.h lies in EVENT_MIN_..EVENT_MAX_
AllCodes == 1..35

IsOpenControl(c) == ConnType[c] = "CONTROL" /\ conn_state[c] = "OPEN"

\* the event payloads of a buffer, in buffer order
EventMsgs(buf) ==
  LET sel == SelectSeq(buf, LAMBDA it : it.kind = "event")
  IN [i \in 1..Len(sel) |-> sel[i].msg]

\* position of payload m in the history of appends (0 when never appended)
EnqPos(m) ==
  LET hits == { i \in DOMAIN enq_log : enq_log[i].msg = m }
  IN IF hits = {} THEN 0 ELSE CHOOSE i \in hits : TRUE

\* number of times payload m was written to a buffer
CountMsg(buf, m) ==
  Cardinality({ i \in DOMAIN buf : buf[i].kind = "event" /\ buf[i].msg = m })

\* C1 as stated: after every run of the recompute, an event code is in the
\* global mask iff some control connection that is open and not marked for
\* close has it in its mask.
C1_Original ==
  [][RecomputeFinish =>
       \A e \in AllCodes :
         (e \in global_event_mask') <=>
           \E c \in Conns : /\ IsOpenControl(c)'
                            /\ ~marked_for_close'[c]
                            /\ e \in event_mask'[c]]_vars

\* C1 amended: after every run of the recompute, an event code is in the
\* global mask iff some control connection whose state is open has it in its
\* mask, marked for close or not; a connection that is not open contributes
\* no bit.
C1_GlobalMaskIsUnionOfOpen ==
  [][RecomputeFinish =>
       \A e \in AllCodes :
         (e \in global_event_mask') <=>
           \E c \in Conns : IsOpenControl(c)' /\ e \in event_mask'[c]]_vars

\* C1 witness: a recompute has run (bits are set in the global mask) while an
\* open connection marked for close holds a bit that is in the global mask and
\* a connection that is not open holds a bit that is not.
C1_Witness ==
  /\ pc[Main] = "idle"
  /\ \E c \in Conns : /\ IsOpenControl(c) /\ marked_for_close[c]
                      /\ event_mask[c] # {}
                      /\ global_event_mask = event_mask[c]
  /\ \E d \in Conns : /\ ConnType[d] = "CONTROL" /\ conn_state[d] # "OPEN"
                      /\ ~(event_mask[d] \subseteq global_event_mask)

\* C2: in every buffer, two event payloads appear in the order in which they
\* were appended to the queue under the mutex, and none appears twice.
C2_OutbufInEnqueueOrder ==
  \A r \in Conns :
    LET ms == EventMsgs(outbuf[r])
    IN \A i, j \in DOMAIN ms :
         i < j => (EnqPos(ms[i]) > 0 /\ EnqPos(ms[i]) < EnqPos(ms[j]))

\* C2 witness: three events were appended in the mutex order E1, E3, E2 with
\* E1 and E2 from one thread and E3 from another, the payloads of the two
\* threads were allocated in another order than they were appended, and a
\* buffer reads E1 E3 E2.
C2_Witness ==
  /\ Len(enq_log) = 3
  /\ enq_log[1].thread = enq_log[3].thread
  /\ enq_log[1].thread # enq_log[2].thread
  /\ enq_log[2].msg < enq_log[1].msg
  /\ \E r \in Conns :
       EventMsgs(outbuf[r]) = << enq_log[1].msg, enq_log[2].msg, enq_log[3].msg >>

\* C3 as stated: every event was interesting at the instant it was appended.
C3_Original ==
  \A i \in DOMAIN enq_log : enq_log[i].interesting

\* C3 amended: every event appended by a publish on the main thread was
\* interesting at the instant it was appended (a publish on another thread
\* tests the mask before it takes the mutex, and the main thread may clear the
\* bit in between).
C3_MainThreadInterestingAtAppend ==
  \A i \in DOMAIN enq_log :
    enq_log[i].thread = Main => enq_log[i].interesting

\* C3 witness: the main thread and another thread have both appended, and the
\* main thread's event was interesting when appended.
C3_Witness ==
  /\ \E i \in DOMAIN enq_log : enq_log[i].thread = Main /\ enq_log[i].interesting
  /\ \E j \in DOMAIN enq_log : enq_log[j].thread # Main /\ ~enq_log[j].interesting

FreedFor(why) == { f.msg : f \in { g \in freed : g.why = why } }

\* a step of publish on thread t, on any of its paths
PublishStep(t) ==
  \/ \E ev \in PublishEvents : PublishCheck(t, ev)
  \/ PublishAcquire(t)
  \/ PublishCritical(t)
  \/ \E ev \in PublishEvents : ReentrantPublish(t, ev)
  \/ t = Main /\ \E ev \in DrainEvents : FlushDrainPublish(ev)

\* C5: a publish made on a thread that is inside publish or inside flush
\* leaves the queue, the flag and the flush event as they are and frees its
\* payload; a publish of an interesting event made on a thread whose own
\* counter is zero is admitted although another thread's counter is raised.
C5_ReentrantPublishDiscarded ==
  [][/\ \A t \in Threads, ev \in PublishEvents :
          ReentrantPublish(t, ev) =>
            /\ block_event_queue[t] > 0
            /\ UNCHANGED << queueVars, flush_queued_events_event, enq_log >>
            /\ next_msg' \in { f.msg : f \in freed' }
            /\ next_msg' \notin { f.msg : f \in freed }
     /\ \A t \in Threads, ev \in PublishEvents :
          ( /\ PublishCheck(t, ev)
            /\ EVENT_IS_INTERESTING(ev)
            /\ \E u \in Threads \ {t} : block_event_queue[u] > 0 ) =>
            /\ pc'[t] = "pub_acquire"
            /\ cur'[t].msg = next_msg'
            /\ freed' = freed]_vars

\* C5 witness: a payload was freed by the reentry test, and an event appended
\* by one thread is in the queue while the other thread is inside flush or
\* publish with its counter raised.
C5_Witness ==
  /\ FreedFor("reentry") # {}
  /\ \E t \in Threads :
       /\ block_event_queue[t] > 0
       /\ \E i \in DOMAIN queued_control_events.list :
            /\ EnqPos(queued_control_events.list[i].msg) > 0
            /\ enq_log[EnqPos(queued_control_events.list[i].msg)].thread # t

\* the control connections a flush writes to, stated on the connection fields
Eligible(r) ==
  /\ ConnType[r] = "CONTROL"
  /\ conn_state[r] = "OPEN"
  /\ ~marked_for_close[r]

\* C6: the delivery step of a flush writes the payload of each event of its
\* batch exactly once to every control connection that is open, not marked
\* for close and has the event's code in its mask at that step, writes
\* nothing else, and leaves every other buffer as it is.
C6_FlushDeliversToSubscribers ==
  [][FlushDeliver =>
       \A r \in Conns :
         /\ \A i \in DOMAIN queued_events :
              CountMsg(outbuf'[r], queued_events[i].msg)
                - CountMsg(outbuf[r], queued_events[i].msg)
              = IF Eligible(r) /\ queued_events[i].event \in event_mask[r]
                THEN 1 ELSE 0
         /\ Len(outbuf'[r]) - Len(outbuf[r])
              = Cardinality({ i \in DOMAIN queued_events :
                                Eligible(r) /\ queued_events[i].event \in event_mask[r] })
         /\ SubSeq(outbuf'[r], 1, Len(outbuf[r])) = outbuf[r]]_vars

\* C6 witness: a flush has delivered an event to one control connection and
\* not to another one that is open, marked for close and has the event's code
\* in its mask, and an event went to a connection that did not receive another
\* event of the flush, of a code its mask lacks.
C6_Witness ==
  /\ pc[Main] = "idle"
  /\ \E r1, r2 \in Conns, m \in FreedFor("flushed") :
       /\ r1 # r2
       /\ CountMsg(outbuf[r1], m) = 1
       /\ CountMsg(outbuf[r2], m) = 0
       /\ IsOpenControl(r2) /\ marked_for_close[r2]
       /\ enq_log[EnqPos(m)].event \in event_mask[r2]
  /\ \E r \in Conns, m1, m2 \in FreedFor("flushed") :
       /\ CountMsg(outbuf[r], m1) = 1
       /\ CountMsg(outbuf[r], m2) = 0
       /\ enq_log[EnqPos(m1)].event # enq_log[EnqPos(m2)].event

\* C7: no step of publish, on any path and on any thread, changes the buffer,
\* the mask, the state or the mark of a connection, or the global mask.
C7_PublishLeavesClientsAlone ==
  [][\A t \in Threads :
       PublishStep(t) =>
         UNCHANGED << outbuf, event_mask, conn_state, marked_for_close,
                      global_event_mask >>]_vars

\* C7 witness: publish has taken each of its three paths (dropped as
\* uninteresting, dropped by the reentry test, appended) and the appended
\* event is still in the queue, no buffer holding it.
C7_Witness ==
  /\ FreedFor("uninteresting") # {}
  /\ FreedFor("reentry") # {}
  /\ Len(queued_control_events.list) > 0
  /\ \A c \in Conns : EventMsgs(outbuf[c]) = << >>

\* a step that appends an event to the queue
AppendStep == Len(enq_log') = Len(enq_log) + 1

FlushPositions == { "flush_drain", "flush_swap", "flush_deliver" }

C8_PublishActivatesOnce ==
  [][/\ (AppendStep /\ ( \/ flush_queued_event_pending' # flush_queued_event_pending
                         \/ flush_queued_events_event' # flush_queued_events_event
                         \/ assert_failed' # assert_failed ))
          => /\ enq_log'[Len(enq_log')].thread = Main
             /\ ~flush_queued_event_pending
             /\ flush_queued_event_pending'
             /\ flush_queued_events_event' = "active" \/ ~Running'
     /\ (AppendStep /\ flush_queued_event_pending)
          => UNCHANGED << flush_queued_event_pending, flush_queued_events_event >>
     /\ \A w \in Workers : pc'[w] \notin FlushPositions]_vars

\* C8 amended, the states: when the flag is true the flush event is activated,
\* or the flush it scheduled has started and not yet swapped the queue, or the
\* publish that set the flag failed its assertion on the flush event; the
\* flag may be false while the event is activated.
C8_FlagImpliesFlushOutstanding ==
  flush_queued_event_pending =>
    \/ flush_queued_events_event = "active"
    \/ pc[Main] \in { "flush_drain", "flush_swap" }
    \/ assert_failed = "tor_assert(flush_queued_events_event)"

WorkerEventLeaves(e) ==
  /\ \E i \in DOMAIN queued_control_events.list : queued_control_events.list[i] = e
  /\ enq_log[EnqPos(e.msg)].thread # Main
  /\ \A i \in DOMAIN queued_control_events'.list : queued_control_events'.list[i] # e

\* the append of a publish on a thread other than the main thread while the
\* flag is false: the event is the new last element of the queue, the flag
\* stays false and the flush event is not touched
WorkerAppendLeavesFlagAndEvent ==
  \A w \in Workers :
    (PublishCritical(w) /\ ~flush_queued_event_pending /\ Running') =>
      /\ queued_control_events'.list = Append(queued_control_events.list, cur[w])
      /\ ~flush_queued_event_pending'
      /\ UNCHANGED flush_queued_events_event

\* the delivery step of a flush writes every event of its batch to every
\* control connection that is open, not marked and subscribed to its code
BatchDelivered ==
  FlushDeliver =>
    \A i \in DOMAIN queued_events, r \in Conns :
      (Eligible(r) /\ queued_events[i].event \in event_mask[r]) =>
         CountMsg(outbuf'[r], queued_events[i].msg) = 1

\* C9 as stated: a publish from a thread other than the main thread while the
\* flag is false appends the event, leaves the flag false and the flush event
\* alone; the event leaves the queue only as part of the batch of a flush,
\* and that flush delivers it.
C9_Original ==
  [][/\ WorkerAppendLeavesFlagAndEvent
     /\ \A m \in 1..next_msg, ev \in PublishEvents :
          WorkerEventLeaves([event |-> ev, msg |-> m]) =>
            /\ FlushSwap
            /\ \E i \in DOMAIN queued_events' :
                 queued_events'[i] = [event |-> ev, msg |-> m]
     /\ BatchDelivered]_vars

\* C9 amended: as C9, but the event leaves the queue either as part of the
\* batch of a flush, which delivers it, or because the teardown detaches the
\* queue, which frees it without writing it to any buffer.
C9_WorkerEventWaitsForFlush ==
  [][/\ WorkerAppendLeavesFlagAndEvent
     /\ \A m \in 1..next_msg, ev \in PublishEvents :
          WorkerEventLeaves([event |-> ev, msg |-> m]) =>
            /\ FlushSwap \/ FreeAllDetach
            /\ \E i \in DOMAIN queued_events' :
                 queued_events'[i] = [event |-> ev, msg |-> m]
     /\ BatchDelivered
     /\ FreeAllRest =>
          /\ UNCHANGED outbuf
          /\ \A i \in DOMAIN queued_events :
               [msg |-> queued_events[i].msg, why |-> "free_all"] \in freed']_vars

\* C9 witness: an event appended by a thread other than the main thread while
\* the flag was false, with no activation, has been delivered by a flush, and
\* another such event has been freed by the teardown.
C9_Witness ==
  /\ \E i \in DOMAIN enq_log :
       /\ enq_log[i].thread # Main
       /\ enq_log[i].msg \in FreedFor("flushed")
       /\ \E r \in Conns : CountMsg(outbuf[r], enq_log[i].msg) = 1
  /\ \E j \in DOMAIN enq_log :
       /\ enq_log[j].thread # Main
       /\ enq_log[j].msg \in FreedFor("free_all")

\* the step changes the queue or the flag
QueueWritten == queueVars' # queueVars

\* the writer of the step holds the mutex: it is the thread at the section
\* under the mutex that appends its event, or the main thread taking and
\* releasing the mutex within the step while no other thread holds it
WriterHoldsMutex ==
  /\ lock_exists
  /\ \/ lock_holder = NoThread
     \/ /\ lock_holder \in Threads
        /\ pc[lock_holder] = "pub_critical"
        /\ queued_control_events'.list =
             Append(queued_control_events.list, cur[lock_holder])

\* C10 as stated: every step of publish, flush, initialization and teardown
\* that reads or writes the queue or the flag is made with the mutex held.
C10_Original ==
  /\ [][(QueueWritten \/ FlushDrainDone \/ \E b \in BOOLEAN : control_initialize_event_queue(b))
          => WriterHoldsMutex /\ ~FlushDrainDone]_vars
  /\ [](Running => \A t \in Threads : pc[t] = "pub_critical" => lock_holder = t)

\* C10 amended: every access of publish and every write of flush and teardown
\* to the queue and the flag is made with the mutex held; the initialization
\* tests and sets the queue pointer without it, and flush tests the queue
\* pointer before it takes the mutex.
C10_WritesUnderMutex ==
  /\ [][(QueueWritten /\ ~(\E b \in BOOLEAN : control_initialize_event_queue(b)))
          => WriterHoldsMutex]_vars
  /\ [][\A t \in Threads : PublishCritical(t) => lock_holder = t]_vars
  /\ [](Running => \A t \in Threads : pc[t] = "pub_critical" => lock_holder = t)
  /\ [](lock_holder # NoThread => pc[lock_holder] = "pub_critical")

\* C10 witness: a thread holds the mutex in publish while the main thread
\* waits for it in flush, after events were appended and a teardown has run.
C10_Witness ==
  /\ \E w \in Workers : pc[w] = "pub_critical" /\ lock_holder = w
  /\ pc[Main] = "flush_swap"
  /\ Len(enq_log) > 0
  /\ FreedFor("free_all") # {}

\* the teardown of an initialized dispatcher has detached the queue, or has
\* completed, and the queue was not created again (the mutex outlives
\* control_events_free_all, the queue does not)
TornDown == lock_exists /\ queued_control_events.null

\* C11 as stated: a step of publish taken after the teardown has started or
\* completed, on any thread, changes neither the queue nor the flag nor the
\* flush event, fails no assertion, and a publish that starts then frees its
\* payload at once.
C11_PublishAfterTeardownDrops ==
  [][\A t \in Threads :
       (TornDown /\ PublishStep(t)) =>
         /\ UNCHANGED << queueVars, flush_queued_events_event, enq_log >>
         /\ assert_failed' = "none"
         /\ (\E ev \in PublishEvents : PublishCheck(t, ev)) =>
              next_msg' \in { f.msg : f \in freed' }]_vars

\* the state control_events_free_all leaves behind
FreeAllResult ==
  /\ queued_control_events = NullQueue
  /\ ~flush_queued_event_pending
  /\ flush_queued_events_event = "null"
  /\ global_event_mask = {}
  /\ queued_events = << >>

\* C12: the first part of the teardown detaches the whole queue with the
\* mutex free to take and clears the flag; the second part frees every
\* detached event, writes to no buffer, releases the flush event and zeroes
\* the global mask; a teardown that starts in the state a teardown leaves
\* behind changes nothing but the position of the main thread, and no
\* assertion fails.
C12_FreeAllDetachesFreesAndIsIdempotent ==
  [][/\ FreeAllDetach =>
          /\ lock_exists =>
               /\ lock_holder = NoThread
               /\ queued_events' = queued_control_events.list
               /\ queued_control_events' = NullQueue
               /\ ~flush_queued_event_pending'
          /\ UNCHANGED << outbuf, freed >>
          /\ assert_failed' = "none"
          /\ FreeAllResult =>
               UNCHANGED << global_event_mask, connVars, queueVars, lock_exists,
                            lock_holder, flush_queued_events_event, queued_events,
                            histVars >>
     /\ FreeAllRest =>
          /\ \A i \in DOMAIN queued_events :
               [msg |-> queued_events[i].msg, why |-> "free_all"] \in freed'
          /\ UNCHANGED outbuf
          /\ assert_failed' = "none"
          /\ FreeAllResult'
          /\ FreeAllResult =>
               UNCHANGED << global_event_mask, connVars, queueVars, lock_exists,
                            lock_holder, flush_queued_events_event, queued_events,
                            histVars >>]_vars

\* C12 witness: a teardown has freed a queued event that no buffer holds, and
\* the main thread is in the middle of another teardown that found the state
\* the first one left behind.
C12_Witness ==
  /\ pc[Main] = "free_rest"
  /\ lock_exists
  /\ FreeAllResult
  /\ \E m \in FreedFor("free_all") : \A c \in Conns : CountMsg(outbuf[c], m) = 0

\* the payloads appended by the drain of a flush and not yet written out by
\* the delivery loop of a flush
DrainedPending ==
  { enq_log[i].msg : i \in { j \in DOMAIN enq_log :
       enq_log[j].drain /\ enq_log[j].msg \notin FreedFor("flushed") } }

\* C13, the steps: a log message is handed over by the drain of a flush while
\* the main thread's counter is still zero and the queue is not yet taken, so
\* that an interesting one is appended to the queue; the swap takes every
\* event of the drain into the batch, and the delivery loop writes each of
\* them to every eligible subscriber.
C13_DrainSteps ==
  [][/\ \A ev \in DrainEvents :
          FlushDrainPublish(ev) =>
            /\ block_event_queue[Main] = 0
            /\ queued_events = << >>
            /\ EVENT_IS_INTERESTING(ev) =>
                 /\ queued_control_events'.list =
                      Append(queued_control_events.list,
                             [event |-> ev, msg |-> next_msg'])
                 /\ freed' = freed
     /\ FlushSwap =>
          \A m \in DrainedPending : \E j \in DOMAIN queued_events' :
             queued_events'[j].msg = m
     /\ FlushDeliver =>
          \A m \in DrainedPending :
            /\ \E j \in DOMAIN queued_events : queued_events[j].msg = m
            /\ m \in FreedFor("flushed")'
            /\ \A r \in Conns :
                 (Eligible(r) /\ enq_log[EnqPos(m)].event \in event_mask[r])
                   => CountMsg(outbuf'[r], m) = 1]_vars

\* C13, the states: outside a flush no event of a drain is left undelivered.
C13_NoDrainedEventOutlivesItsFlush ==
  pc[Main] \notin FlushPositions => DrainedPending = {}

\* C13: the two parts together.
C13_DrainedLogEventsJoinTheBatch ==
  /\ C13_DrainSteps
  /\ []C13_NoDrainedEventOutlivesItsFlush

\* C13 witness: a flush is over, and a buffer holds an event that was queued
\* before the flush started followed by a log event appended by its drain.
C13_Witness ==
  /\ pc[Main] = "idle"
  /\ \E r \in Conns, i, j \in DOMAIN enq_log :
       /\ i < j
       /\ ~enq_log[i].drain /\ enq_log[j].drain
       /\ EventMsgs(outbuf[r]) = << enq_log[i].msg, enq_log[j].msg >>

\* the names of a command body that are neither legacy names nor names of
\* the table, by position
UnknownAt(body) ==
  { i \in DOMAIN body :
      /\ ~IsLegacyName(body[i])
      /\ \A k \in DOMAIN control_event_table :
           ~strcasecmp_eq(body[i], control_event_table[k].event_name) }

FirstUnknown(body) ==
  CHOOSE i \in UnknownAt(body) : \A j \in UnknownAt(body) : i <= j

\* C14: a SETEVENTS command with an unrecognized name appends to the issuing
\* connection's buffer the 552 reply that names the first such name and
\* nothing else, leaves every connection's mask and the global mask as they
\* were, and returns without the recompute and without "250 OK".
C14_UnknownNameRejected ==
  [][\A c \in Conns, body \in Bodies :
       (handle_control_setevents(c, body) /\ UnknownAt(body) # {}) =>
         /\ outbuf'[c] = Append(outbuf[c],
              Reply(Unrecognized(body[FirstUnknown(body)])))
         /\ \A d \in Conns \ {c} : outbuf'[d] = outbuf[d]
         /\ UNCHANGED << event_mask, global_event_mask >>
         /\ pc'[Main] = "idle"]_vars

\* C14 witness: a connection subscribed to ORCONN has received "250 OK" and
\* then the 552 reply for a command with a recognized name before two
\* unrecognized ones, naming the first, and its mask and the global mask
\* still hold ORCONN only.
C14_Witness ==
  /\ pc[Main] = "idle"
  /\ \E c \in Conns :
       /\ outbuf[c] = << Reply("250 OK"), Reply(Unrecognized("FOOBAR")) >>
       /\ event_mask[c] = {EVENT_OR_CONN_STATUS}
       /\ global_event_mask = {EVENT_OR_CONN_STATUS}

\* the bits of the codes whose table names occur in a command body, compared
\* without regard to case
NamedBits(body) ==
  UNION { EVENT_MASK_(control_event_table[k].event_code) :
            k \in { l \in DOMAIN control_event_table :
                      \E i \in DOMAIN body :
                        strcasecmp_eq(body[i], control_event_table[l].event_name) } }

\* C15: a SETEVENTS command whose names are all recognized sets the issuing
\* connection's mask to exactly the bits of the named codes, whatever the mask
\* was, leaves the other masks and every buffer as they are and goes on to
\* the recompute; the recompute sets the global mask, and "250 OK" is
\* appended to the issuing connection's buffer after it.
C15_RecognizedNamesReplaceMask ==
  [][/\ \A c \in Conns, body \in Bodies :
          (handle_control_setevents(c, body) /\ UnknownAt(body) = {}) =>
            /\ event_mask'[c] = NamedBits(body)
            /\ \A d \in Conns \ {c} : event_mask'[d] = event_mask[d]
            /\ UNCHANGED outbuf
            /\ pc'[Main] = "recompute" /\ cmd_conn' = c
     /\ RecomputeFinish =>
          /\ global_event_mask' =
               UNION { event_mask[c] : c \in { d \in Conns : IsOpenControl(d) } }
          /\ UNCHANGED event_mask
          /\ outbuf'[cmd_conn] = Append(outbuf[cmd_conn], Reply("250 OK"))
          /\ \A d \in Conns \ {cmd_conn} : outbuf'[d] = outbuf[d]
          /\ pc'[Main] = "idle"]_vars

\* C15 witness: a connection that held ORCONN and WARN (set by a command with
\* a legacy name and names in other case) has had its mask replaced by ORCONN
\* alone, and the recompute of that second command is about to run.
C15_Witness ==
  /\ pc[Main] = "recompute"
  /\ n_cmds = 2
  /\ event_mask[cmd_conn] = EVENT_MASK_(EVENT_OR_CONN_STATUS)
  /\ old_mask = EVENT_MASK_(EVENT_OR_CONN_STATUS) \cup EVENT_MASK_(EVENT_WARN_MSG)
  /\ \A d \in Conns \ {cmd_conn} : event_mask[d] = {}
  /\ outbuf[cmd_conn] = << Reply("250 OK") >>

\* ---------------------------------------------------------------------
\* SETEVENTS with no names, and the aftermath of a recompute

\* the SETEVENTS being completed named no event
EmptySetevents == RecomputeFinish /\ cmd_body = << >>

ErrOnly == [loglevelMin |-> "LOG_ERR", loglevelMax |-> "LOG_ERR"]

\* the OR of the masks of the open control connections other than c
OthersMask(c) ==
  UNION { event_mask[d] : d \in { e \in Conns : /\ e # c
                                               /\ ConnType[e] = "CONTROL"
                                               /\ STATE_IS_OPEN(conn_state[e]) } }

\* the window cb lets the log event e through
Covers(cb, e) ==
  /\ log_severity_to_event(cb.loglevelMin) <= e
  /\ e <= log_severity_to_event(cb.loglevelMax)

\* C16 (as stated): after a SETEVENTS with no names the client's mask is
\* empty, the global mask is a subset of what it was, and the log callback
\* is narrowed to ERR only.
C16_Original ==
  [][EmptySetevents =>
       /\ event_mask'[cmd_conn] = {}
       /\ global_event_mask' \subseteq old_mask
       /\ log_callback' = ErrOnly]_vars

\* C16 (amended): after a SETEVENTS with no names from an authenticated
\* client the client's mask is empty and the global mask is the OR of the
\* other open clients' masks, a subset of what it was; the log callback is
\* narrowed to ERR only when no other open client holds a log-level or
\* STATUS_GENERAL bit, and otherwise still lets through every severity
\* another open client subscribes to, and NOTICE to ERR when another
\* client holds STATUS_GENERAL.
C16_EmptySeteventsLeavesOthersWindow ==
  [][EmptySetevents =>
       /\ event_mask'[cmd_conn] = {}
       /\ global_event_mask' = OthersMask(cmd_conn)
       /\ global_event_mask' \subseteq old_mask
       /\ (OthersMask(cmd_conn) \cap (LogEvents \cup {EVENT_STATUS_GENERAL}) = {}
             => log_callback' = ErrOnly)
       /\ \A e \in OthersMask(cmd_conn) \cap LogEvents : Covers(log_callback', e)
       /\ (EVENT_STATUS_GENERAL \in OthersMask(cmd_conn)
             => Covers(log_callback', EVENT_NOTICE_MSG)
                /\ Covers(log_callback', EVENT_ERR_MSG))]_vars

\* a client that cleared its subscriptions while another open client
\* still subscribes to WARN: the callback stays at WARN
C16_Witness ==
  /\ pc[Main] = "idle" /\ n_cmds = 2
  /\ \E c \in ControlConns :
        /\ event_mask[c] = {}
        /\ Len(outbuf[c]) = 1
        /\ \E d \in ControlConns \ {c} :
              /\ STATE_IS_OPEN(conn_state[d])
              /\ event_mask[d] = {EVENT_WARN_MSG}
  /\ global_event_mask = {EVENT_WARN_MSG}
  /\ log_callback = [loglevelMin |-> "LOG_WARN", loglevelMax |-> "LOG_WARN"]

\* the lowest and the highest of a non-empty set of event codes
Lowest(S) == CHOOSE i \in S : \A j \in S : i <= j
Highest(S) == CHOOSE i \in S : \A j \in S : i >= j

\* the window the registry is to install for the global mask `mask`
SeverityWindow(mask) ==
  LET wanted == (mask \cap LogEvents)
                  \cup (IF EVENT_STATUS_GENERAL \in mask
                          THEN {EVENT_NOTICE_MSG, EVENT_ERR_MSG} ELSE {})
  IN IF wanted = {}
       THEN ErrOnly
       ELSE [loglevelMin |-> event_to_log_severity(Lowest(wanted)),
             loglevelMax |-> event_to_log_severity(Highest(wanted))]

\* C17: after every recompute the window installed on the log callback is
\* the range from the lowest to the highest severity among DEBUG..ERR whose
\* bit is set in the new global mask, widened to cover NOTICE..ERR when
\* STATUS_GENERAL is set, and ERR only when none of these bits is set.
C17_WindowFollowsNewGlobalMask ==
  [][RecomputeFinish =>
       /\ log_callback' = SeverityWindow(global_event_mask')
       /\ (global_event_mask' = {EVENT_WARN_MSG}
             => log_callback' = [loglevelMin |-> "LOG_WARN",
                                 loglevelMax |-> "LOG_WARN"])
       /\ (global_event_mask' = {EVENT_WARN_MSG, EVENT_STATUS_GENERAL}
             => log_callback' = [loglevelMin |-> "LOG_NOTICE",
                                 loglevelMax |-> "LOG_ERR"])]_vars

\* one client subscribes to WARN alone and the global mask holds WARN and
\* STATUS_GENERAL: the window is NOTICE..ERR
C17_Witness ==
  /\ pc[Main] = "idle" /\ n_cmds = 2
  /\ global_event_mask = {EVENT_WARN_MSG, EVENT_STATUS_GENERAL}
  /\ log_callback = [loglevelMin |-> "LOG_NOTICE", loglevelMax |-> "LOG_ERR"]
  /\ \E c \in ControlConns : event_mask[c] = {EVENT_WARN_MSG}

ZeroCirc == [f \in CircBwFields |-> 0]
ZeroEdge == [f \in EdgeBwFields |-> 0]

\* the recompute being completed turns the bit ev on
TurnsOn(ev) == ev \notin old_mask /\ ev \in global_event_mask'

\* C18: a recompute arms only a bit that was clear in the previous global
\* mask and is set in the new one: CIRC_BW newly enabled leaves every origin
\* circuit's bandwidth counters at zero, STREAM_BW newly enabled leaves every
\* application connection's byte counters at zero, and a bit that was
\* already set or stays clear leaves the counters as they were.
C18_ArmingOnlyForNewlyEnabled ==
  [][RecomputeFinish =>
       /\ (TurnsOn(EVENT_CIRC_BANDWIDTH_USED)
             => \A k \in Circs : CIRCUIT_IS_ORIGIN(k) => circ_bw'[k] = ZeroCirc)
       /\ (TurnsOn(EVENT_STREAM_BANDWIDTH_USED)
             => \A c \in ApConns : edge_bw'[c] = ZeroEdge)
       /\ (~TurnsOn(EVENT_CIRC_BANDWIDTH_USED) => circ_bw' = circ_bw)
       /\ (~TurnsOn(EVENT_STREAM_BANDWIDTH_USED) => edge_bw' = edge_bw)]_vars

\* every circuit and stream carried traffic and the last recompute turned
\* CIRC_BW on, with STREAM_BW set: the origin circuit reads zero, the other
\* circuit and the stream keep their counts
C18_Witness ==
  /\ pc[Main] = "idle" /\ n_cmds = 2
  /\ "clear_circ_bw_fields" \in recompute_calls
  /\ {EVENT_CIRC_BANDWIDTH_USED, EVENT_STREAM_BANDWIDTH_USED}
       \subseteq global_event_mask
  /\ \A k \in Circs :
        circ_bw[k] = IF CIRCUIT_IS_ORIGIN(k)
                       THEN ZeroCirc ELSE [f \in CircBwFields |-> 1]
  /\ \A c \in ApConns : edge_bw[c] = [f \in EdgeBwFields |-> 1]

\* some per-second event (BW, CELL_STATS, CIRC_BW, CONN_BW, STREAM_BW) is
\* set in mask
any_per_second_enabled(mask) ==
  \E ev \in { EVENT_BANDWIDTH_USED, EVENT_CELL_STATS, EVENT_CIRC_BANDWIDTH_USED,
               EVENT_CONN_BW, EVENT_STREAM_BANDWIDTH_USED } : ev \in mask

\* C19: a recompute calls rescan_periodic_events exactly when
\* any_per_second_enabled differs between the old and the new global mask,
\* and never when it is the same before and after.
C19_RescanExactlyOnFlip ==
  [][RecomputeFinish =>
       (("rescan_periodic_events" \in recompute_calls')
          <=> (any_per_second_enabled(old_mask)
                 # any_per_second_enabled(global_event_mask')))]_vars

\* the last per-second subscription was dropped by the second command and
\* the scheduler was told
C19_Witness ==
  /\ pc[Main] = "idle" /\ n_cmds = 2
  /\ "rescan_periodic_events" \in recompute_calls
  /\ ~any_per_second_enabled(global_event_mask)

\* ---------------------------------------------------------------------
\* The escaped-data codec (control_proto.c)

\* the bytes the codec distinguishes, and one ordinary byte
CR == "\r"
LF == "\n"
DOT == "."
EscBytes == { CR, LF, DOT, "a" }

RECURSIVE SeqsUpTo(_)
SeqsUpTo(n) ==
  IF n = 0 THEN { << >> }
  ELSE LET shorter == SeqsUpTo(n - 1)
       IN shorter \cup { Append(d, b) : d \in { e \in shorter : Len(e) = n - 1 },
                                        b \in EscBytes }

\* the inputs: every string over EscBytes of at most MaxDataLen bytes
EscInputs == SeqsUpTo(MaxDataLen)

\* variant: a period at the start of a line is not doubled
RECURSIVE WriteLoop_NoStuffing(_, _, _, _)
WriteLoop_NoStuffing(data, i, start_of_line, out) ==
  IF i > Len(data) THEN out
  ELSE IF data[i] = LF
    THEN WriteLoop_NoStuffing(data, i + 1, TRUE,
           Append(IF i > 1 /\ data[i - 1] # CR THEN Append(out, CR) ELSE out,
                  data[i]))
    ELSE WriteLoop_NoStuffing(data, i + 1, FALSE, Append(out, data[i]))

\* the while loop of write_escaped_data from position i on
RECURSIVE WriteLoop(_, _, _, _)
WriteLoop(data, i, start_of_line, out) ==
  IF i > Len(data) THEN out
  ELSE IF data[i] = LF
    THEN WriteLoop(data, i + 1, TRUE,
           Append(IF i > 1 /\ data[i - 1] # CR THEN Append(out, CR) ELSE out,
                  data[i]))
  ELSE IF data[i] = DOT
    THEN WriteLoop(data, i + 1, FALSE,
           Append(IF start_of_line THEN Append(out, DOT) ELSE out, data[i]))
  ELSE WriteLoop(data, i + 1, FALSE, Append(out, data[i]))

EndsWithCRLF(out) ==
  Len(out) >= 2 /\ out[Len(out) - 1] = CR /\ out[Len(out)] = LF

\* SSIZE_MAX - 16 where size_t has 32 bits
SIZE_T_CEILING == 2147483631

\* the size computed by the first loop of write_escaped_data: len + 8 + 1
\* and two more for every LF
SzOut(data) ==
  Len(data) + 8 + 1 + 2 * Cardinality({ i \in 1 .. Len(data) : data[i] = LF })

\* the test made at each LF of the input: the size only grows, so some
\* test fails exactly when the last one does
InputTooLong(data) ==
  (\E i \in 1 .. Len(data) : data[i] = LF) /\ SzOut(data) >= SIZE_T_CEILING

\* variant: no CRLF is added when the encoded data does not end with one
write_escaped_data_NoFinalCRLF(data) ==
  IF InputTooLong(data)
    THEN << DOT, CR, LF >>
    ELSE WriteLoop(data, 1, TRUE, << >>) \o << DOT, CR, LF >>

\* write_escaped_data: the size test, the loop, a CRLF when the output does
\* not end with one, and the period-CRLF line
write_escaped_data(data) ==
  IF InputTooLong(data)
    THEN << DOT, CR, LF >>
    ELSE LET body == WriteLoop(data, 1, TRUE, << >>)
             ended == IF EndsWithCRLF(body) THEN body ELSE body \o << CR, LF >>
         IN ended \o << DOT, CR, LF >>

\* memchr(data + p - 1, LF, end - data): the first LF at or after p, or 0
FirstLF(data, p) ==
  LET hits == { i \in p .. Len(data) : data[i] = LF }
  IN IF hits = {} THEN 0 ELSE CHOOSE i \in hits : \A j \in hits : i <= j

\* data[from .. from + n - 1]
Bytes(data, from, n) == [i \in 1 .. n |-> data[from + i - 1]]

\* variant: the CR before an LF is copied too
RECURSIVE ReadLoop_KeepCR(_, _, _)
ReadLoop_KeepCR(data, p, out) ==
  IF p > Len(data) THEN out
  ELSE LET q == IF data[p] = DOT THEN p + 1 ELSE p
           next == FirstLF(data, q)
       IN IF next # 0
            THEN ReadLoop_KeepCR(data, next + 1,
                                 Append(out \o Bytes(data, q, next - q), LF))
            ELSE out \o Bytes(data, q, Len(data) - q + 1)

\* the while loop of read_escaped_data from position p on
RECURSIVE ReadLoop(_, _, _)
ReadLoop(data, p, out) ==
  IF p > Len(data) THEN out
  ELSE LET q == IF data[p] = DOT THEN p + 1 ELSE p
           next == FirstLF(data, q)
           n == next - q
           n_to_copy == IF n > 0 /\ data[next - 1] = CR THEN n - 1 ELSE n
       IN IF next # 0
            THEN ReadLoop(data, next + 1,
                          Append(out \o Bytes(data, q, n_to_copy), LF))
            ELSE out \o Bytes(data, q, Len(data) - q + 1)

read_escaped_data(data) == ReadLoop(data, 1, << >>)

InitEsc ==
  /\ InitDispatcher
  /\ esc_data \in EscInputs
  /\ esc_out = << >>
  /\ esc_read = << >>
  /\ esc_pc = "input"
  /\ InitQuoUnused

\* the caller encodes the data
CallWriteEscaped ==
  /\ esc_pc = "input"
  /\ esc_out' = write_escaped_data(esc_data)
  /\ esc_pc' = "written"
  /\ UNCHANGED << esc_data, esc_read, global_event_mask, connVars, queueVars,
                  lock_exists, lock_holder, flush_queued_events_event,
                  block_event_queue, pc, cur, queued_events, old_mask,
                  cmd_conn, assert_failed, next_msg, n_cmds, histVars,
                  armVars, quoVars, orconnVars >>

\* the caller decodes the whole of what was written
CallReadEscaped ==
  /\ esc_pc = "written"
  /\ esc_read' = read_escaped_data(esc_out)
  /\ esc_pc' = "read"
  /\ UNCHANGED << esc_data, esc_out, global_event_mask, connVars, queueVars,
                  lock_exists, lock_holder, flush_queued_events_event,
                  block_event_queue, pc, cur, queued_events, old_mask,
                  cmd_conn, assert_failed, next_msg, n_cmds, histVars,
                  armVars, quoVars, orconnVars >>

NextEsc ==
  \/ CallWriteEscaped
  \/ CallReadEscaped

SpecEsc == InitEsc /\ [][NextEsc]_vars

\* D with every CRLF and every bare LF as LF
RECURSIVE NormalizeFrom(_, _)
NormalizeFrom(d, i) ==
  IF i > Len(d) THEN << >>
  ELSE IF d[i] = CR /\ i < Len(d) /\ d[i + 1] = LF
    THEN << LF >> \o NormalizeFrom(d, i + 2)
    ELSE << d[i] >> \o NormalizeFrom(d, i + 1)

Normalized(d) == NormalizeFrom(d, 1)

\* what the lines write_escaped_data adds after the data decode to: one LF
\* for the period-CRLF line, and one for the CRLF added when the encoded
\* data did not end with CRLF
TerminatorRead(d) ==
  IF Len(d) >= 2 /\ d[Len(d)] = LF THEN << LF >> ELSE << LF, LF >>

\* C20 (as stated): read_escaped_data applied to the whole output of
\* write_escaped_data(D) returns D with CRLF and bare LF as LF and nothing
\* else added or removed.
C20_Original ==
  esc_pc = "read" => esc_read = Normalized(esc_data)

\* C20 (amended): read_escaped_data applied to the whole output of
\* write_escaped_data(D) returns D with CRLF and bare LF as LF, followed by
\* the LF of the terminating period line, and before it one more LF when
\* the writer had to end the data with a CRLF (D is empty, is a single
\* byte, or does not end with LF).
C20_RoundTripUpToTerminator ==
  esc_pc = "read" =>
    esc_read = Normalized(esc_data) \o TerminatorRead(esc_data)

\* CRLF and a leading period on the next line: the CRLF comes back as LF,
\* the period once, then the two LF of the added CRLF and the terminator
C20_Witness ==
  /\ esc_pc = "read"
  /\ esc_data = << CR, LF, DOT >>
  /\ esc_out = << CR, LF, DOT, DOT, CR, LF, DOT, CR, LF >>
  /\ esc_read = << LF, DOT, LF, LF >>

\* positions of the LF bytes of a byte string
LFsOf(d) == { i \in 1 .. Len(d) : d[i] = LF }

\* C21: in the output of write_escaped_data every LF is preceded by CR, an
\* LF that is the first byte of the input included.
C21_EveryLFOfOutputFollowsCR ==
  esc_pc \in { "written", "read" } =>
    \A i \in LFsOf(esc_out) : i > 1 /\ esc_out[i - 1] = CR

\* d without its CR bytes
RECURSIVE WithoutCR(_)
WithoutCR(d) ==
  IF d = << >> THEN << >>
  ELSE IF Head(d) = CR THEN WithoutCR(Tail(d))
  ELSE << Head(d) >> \o WithoutCR(Tail(d))

\* the period at position i of d is the first byte of d or follows an LF
LineStartDot(d, i) == d[i] = DOT /\ (i = 1 \/ d[i - 1] = LF)

\* d from position i on, with each period that starts a line written twice
RECURSIVE StuffedFrom(_, _)
StuffedFrom(d, i) ==
  IF i > Len(d) THEN << >>
  ELSE (IF LineStartDot(d, i) THEN << DOT, DOT >> ELSE << d[i] >>)
         \o StuffedFrom(d, i + 1)

\* position i of o starts a line that consists of a single period
SingleDotLineAt(o, i) ==
  /\ LineStartDot(o, i)
  /\ \/ i + 1 <= Len(o) /\ o[i + 1] = LF
     \/ i + 2 <= Len(o) /\ o[i + 1] = CR /\ o[i + 2] = LF

InitRead ==
  /\ InitDispatcher
  /\ esc_data = << >>
  /\ esc_out \in EscInputs
  /\ esc_read = << >>
  /\ esc_pc = "written"
  /\ InitQuoUnused

NextRead == CallReadEscaped

SpecRead == InitRead /\ [][NextRead]_vars

\* the byte at position i of o is removed by the decoder: a period that
\* starts a line, or a CR directly before an LF
Stripped(o, i) ==
  \/ LineStartDot(o, i)
  \/ o[i] = CR /\ i < Len(o) /\ o[i + 1] = LF

\* o from position i on without the bytes the decoder removes
RECURSIVE DecodedFrom(_, _)
DecodedFrom(o, i) ==
  IF i > Len(o) THEN << >>
  ELSE (IF Stripped(o, i) THEN << >> ELSE << o[i] >>) \o DecodedFrom(o, i + 1)

\* o ends with a line that is the period-CRLF terminator
EndsWithTerminator(o) ==
  /\ Len(o) >= 3
  /\ SubSeq(o, Len(o) - 2, Len(o)) = << DOT, CR, LF >>
  /\ LineStartDot(o, Len(o) - 2)

WithoutTerminator(o) == SubSeq(o, 1, Len(o) - 3)

\* C23 (as stated): read_escaped_data strips one leading period of each
\* line and turns CRLF into LF on any input, and a terminator line at the
\* end of the input contributes no byte to the output.
C23_Original ==
  esc_pc = "read" =>
    /\ esc_read = DecodedFrom(esc_out, 1)
    /\ (EndsWithTerminator(esc_out)
          => esc_read = DecodedFrom(WithoutTerminator(esc_out), 1))

\* C23 (amended): on any input, whole or cut short, read_escaped_data
\* returns at most as many bytes as it was given: the input without the
\* period that starts a line and without the CR directly before an LF; a
\* terminator line at the end of the input is decoded like any other line
\* and contributes one LF.
C23_ReadStripsAndKeepsTerminatorLF ==
  esc_pc = "read" =>
    /\ Len(esc_read) <= Len(esc_out)
    /\ esc_read = DecodedFrom(esc_out, 1)
    /\ (EndsWithTerminator(esc_out)
          => esc_read = DecodedFrom(WithoutTerminator(esc_out), 1) \o << LF >>)

\* an empty line and the terminator line: two LF come out
C23_Witness ==
  /\ esc_pc = "read"
  /\ esc_data = << >>
  /\ esc_out = << LF, DOT, CR, LF >>
  /\ esc_read = << LF, LF >>

\* ---------------------------------------------------------------------
\* The quoted-string parser (control_proto.c)

QUOTE == "\""
BSLASH == "\\"
QuoBytes == { QUOTE, BSLASH, "a" }

RECURSIVE QuoSeqsUpTo(_)
QuoSeqsUpTo(n) ==
  IF n = 0 THEN { << >> }
  ELSE LET shorter == QuoSeqsUpTo(n - 1)
       IN shorter \cup { Append(d, b) : d \in { e \in shorter : Len(e) = n - 1 },
                                        b \in QuoBytes }

\* the memory at start: at least one byte (a string has its NUL), at most
\* MaxQuotedLen
QuoInputs == { d \in QuoSeqsUpTo(MaxQuotedLen) : Len(d) >= 1 }

\* return value -1 of get_escaped_string_length
NoLength == [length |-> -1, chars |-> 0]

\* variant: a backslash is counted like any other byte
RECURSIVE LengthLoop_NoEscape(_, _, _, _)
LengthLoop_NoEscape(buf, in_len_max, cp, chars) ==
  IF cp >= in_len_max + 1 THEN NoLength
  ELSE IF buf[cp] = QUOTE THEN [length |-> cp, chars |-> chars]
  ELSE LengthLoop_NoEscape(buf, in_len_max, cp + 1, chars + 1)

\* the loop of get_escaped_string_length; positions count from 1, so start
\* is 1, end is in_len_max + 1 and cp - start + 1 is cp
RECURSIVE LengthLoop(_, _, _, _)
LengthLoop(buf, in_len_max, cp, chars) ==
  IF cp >= in_len_max + 1 THEN NoLength
  ELSE IF buf[cp] = BSLASH
    THEN IF cp + 1 = in_len_max + 1
           THEN NoLength
           ELSE LengthLoop(buf, in_len_max, cp + 2, chars + 1)
  ELSE IF buf[cp] = QUOTE THEN [length |-> cp, chars |-> chars]
  ELSE LengthLoop(buf, in_len_max, cp + 1, chars + 1)

get_escaped_string_length(buf, in_len_max) ==
  IF buf[1] # QUOTE THEN NoLength ELSE LengthLoop(buf, in_len_max, 2, 0)

\* ret is the returned pointer as an offset from start, -1 for NULL
extract_escaped_string(buf, in_len_max) ==
  LET length == get_escaped_string_length(buf, in_len_max).length
  IN IF length < 0
       THEN NoParse
       ELSE [ret |-> length, out |-> SubSeq(buf, 1, length),
             out_len |-> length, written |-> TRUE]

\* the copy loop of decode_escaped_string; end is the position of the
\* closing quote
RECURSIVE DecodeLoop(_, _, _, _)
DecodeLoop(buf, cp, end, out) ==
  IF cp >= end THEN out
  ELSE LET from == IF buf[cp] = BSLASH THEN cp + 1 ELSE cp
       IN DecodeLoop(buf, from + 1, end, Append(out, buf[from]))

decode_escaped_string(buf, in_len_max) ==
  LET r == get_escaped_string_length(buf, in_len_max)
  IN IF r.length < 0
       THEN NoParse
       ELSE [ret |-> r.length, out |-> DecodeLoop(buf, 2, r.length, << >>),
             out_len |-> r.chars, written |-> TRUE]

InitQuo ==
  /\ InitDispatcher
  /\ esc_data = << >>
  /\ esc_out = << >>
  /\ esc_read = << >>
  /\ esc_pc = "unused"
  /\ q_buf \in QuoInputs
  /\ q_len \in 0 .. Len(q_buf)
  /\ q_extract = NoParse
  /\ q_decode = NoParse
  /\ q_pc = "input"

CallExtractEscapedString ==
  /\ q_pc = "input"
  /\ q_extract' = extract_escaped_string(q_buf, q_len)
  /\ q_pc' = "extracted"
  /\ UNCHANGED << q_buf, q_len, q_decode,
                  esc_data, esc_out, esc_read, esc_pc,
                  global_event_mask, connVars, queueVars,
                  lock_exists, lock_holder, flush_queued_events_event,
                  block_event_queue, pc, cur, queued_events, old_mask,
                  cmd_conn, assert_failed, next_msg, n_cmds, histVars,
                  armVars, orconnVars >>

CallDecodeEscapedString ==
  /\ q_pc = "extracted"
  /\ q_decode' = decode_escaped_string(q_buf, q_len)
  /\ q_pc' = "decoded"
  /\ UNCHANGED << q_buf, q_len, q_extract,
                  esc_data, esc_out, esc_read, esc_pc,
                  global_event_mask, connVars, queueVars,
                  lock_exists, lock_holder, flush_queued_events_event,
                  block_event_queue, pc, cur, queued_events, old_mask,
                  cmd_conn, assert_failed, next_msg, n_cmds, histVars,
                  armVars, orconnVars >>

NextQuo ==
  \/ CallExtractEscapedString
  \/ CallDecodeEscapedString

SpecQuo == InitQuo /\ [][NextQuo]_vars

\* the byte at position i >= 2 of buf is escaped: the byte before it is a
\* backslash of the string that is not itself escaped
RECURSIVE IsEscaped(_, _)
IsEscaped(buf, i) ==
  i >= 3 /\ buf[i - 1] = BSLASH /\ ~IsEscaped(buf, i - 1)

\* the positions at which an unescaped double quote closes the string
\* within the first L bytes
ClosingQuotes(buf, L) ==
  { i \in 2 .. L : /\ buf[i] = QUOTE
                   /\ ~IsEscaped(buf, i)
                   /\ \A j \in 2 .. (i - 1) : buf[j] = QUOTE => IsEscaped(buf, j) }

WellQuoted(buf, L) == buf[1] = QUOTE /\ ClosingQuotes(buf, L) # {}

\* the bytes between the quotes without the backslashes that escape
RECURSIVE PayloadFrom(_, _, _)
PayloadFrom(buf, i, close) ==
  IF i >= close THEN << >>
  ELSE (IF buf[i] = BSLASH /\ ~IsEscaped(buf, i) THEN << >> ELSE << buf[i] >>)
         \o PayloadFrom(buf, i + 1, close)

\* C24: extract_escaped_string and decode_escaped_string succeed on the same
\* inputs, those that start with a double quote and reach an unescaped
\* closing quote within in_len_max bytes; both then return the position
\* after the closing quote, decode yields the payload with each backslash-x
\* replaced by x and its length; on failure both return NULL and write no
\* output.
C24_ExtractAndDecodeAgree ==
  q_pc = "decoded" =>
    IF WellQuoted(q_buf, q_len)
      THEN LET close == CHOOSE i \in ClosingQuotes(q_buf, q_len) : TRUE
           IN /\ q_extract.ret = close /\ q_decode.ret = close
              /\ q_extract.out = SubSeq(q_buf, 1, close)
              /\ q_extract.out_len = close
              /\ q_decode.out = PayloadFrom(q_buf, 2, close)
              /\ q_decode.out_len = Len(q_decode.out)
      ELSE q_extract = NoParse /\ q_decode = NoParse

\* a string whose payload is an escaped double quote
C24_Witness ==
  /\ q_pc = "decoded"
  /\ q_buf = << QUOTE, BSLASH, QUOTE, QUOTE >> /\ q_len = 4
  /\ q_extract.ret = 4 /\ q_decode.ret = 4
  /\ q_decode.out = << QUOTE >> /\ q_decode.out_len = 1

\* ---------------------------------------------------------------------
\* The OR connection state bus (orconn_sys.c)

\* the function pointers given to orconn_state_subscribe; NULL is one
NULL_FN == "NULL"
BusFns == { "f", "g", NULL_FN }

smartlist_contains(sl, x) == \E i \in DOMAIN sl : sl[i] = x

\* every variable of the dispatcher and the codecs
nonBusVars == << global_event_mask, connVars, queueVars, lock_exists,
                 lock_holder, flush_queued_events_event, block_event_queue,
                 pc, cur, queued_events, old_mask, cmd_conn, assert_failed,
                 next_msg, n_cmds, histVars, armVars, escVars >>

orconn_state_init ==
  /\ orconn_state_rcvrs.null /\ bus_sub_log = << >> /\ bus_n_pub = 0
  /\ orconn_state_rcvrs' = NewQueue
  /\ UNCHANGED << bus_sub_log, bus_calls, bus_n_pub, ocVars, nonBusVars >>

orconn_state_fini ==
  /\ ~orconn_state_rcvrs.null
  /\ orconn_state_rcvrs' = NullQueue
  /\ UNCHANGED << bus_sub_log, bus_calls, bus_n_pub, ocVars, nonBusVars >>

\* variant: the list is not searched before the callback is added
orconn_state_subscribe_NoSearch(fn) ==
  /\ ~orconn_state_rcvrs.null
  /\ Len(bus_sub_log) < MaxSubs
  /\ bus_sub_log' = Append(bus_sub_log, fn)
  /\ orconn_state_rcvrs' =
       [orconn_state_rcvrs EXCEPT !.list = Append(@, fn)]
  /\ UNCHANGED << bus_calls, bus_n_pub, ocVars, nonBusVars >>

orconn_state_subscribe(fn) ==
  /\ ~orconn_state_rcvrs.null
  /\ Len(bus_sub_log) < MaxSubs
  /\ bus_sub_log' = Append(bus_sub_log, fn)
  /\ orconn_state_rcvrs' =
       IF smartlist_contains(orconn_state_rcvrs.list, fn)
         THEN orconn_state_rcvrs
         ELSE [orconn_state_rcvrs EXCEPT !.list = Append(@, fn)]
  /\ UNCHANGED << bus_calls, bus_n_pub, ocVars, nonBusVars >>

\* the loop of orconn_state_publish from position i on: the calls made
RECURSIVE PublishLoop(_, _, _)
PublishLoop(sl, i, msg) ==
  IF i > Len(sl) THEN << >>
  ELSE (IF sl[i] = NULL_FN THEN << >> ELSE << [fn |-> sl[i], msg |-> msg] >>)
         \o PublishLoop(sl, i + 1, msg)

orconn_state_publish ==
  /\ ~orconn_state_rcvrs.null
  /\ bus_n_pub < MaxBusMsgs
  /\ bus_n_pub' = bus_n_pub + 1
  /\ bus_calls' = bus_calls \o PublishLoop(orconn_state_rcvrs.list, 1, bus_n_pub + 1)
  /\ UNCHANGED << orconn_state_rcvrs, bus_sub_log, ocVars, nonBusVars >>

NextBus ==
  \/ orconn_state_init
  \/ \E fn \in BusFns : orconn_state_subscribe(fn)
  \/ orconn_state_publish
  \/ orconn_state_fini

SpecBus == Init /\ [][NextBus]_vars

\* the callbacks of a sequence of subscribe calls, each once, in the order
\* of their first call
RECURSIVE FirstRegistrations(_)
FirstRegistrations(log) ==
  IF log = << >> THEN << >>
  ELSE LET before == FirstRegistrations(SubSeq(log, 1, Len(log) - 1))
           fn == log[Len(log)]
       IN IF \E i \in DOMAIN before : before[i] = fn
            THEN before ELSE Append(before, fn)

\* s without the NULL pointer
RECURSIVE Callable(_)
Callable(s) ==
  IF s = << >> THEN << >>
  ELSE (IF Head(s) = NULL_FN THEN << >> ELSE << Head(s) >>) \o Callable(Tail(s))

\* C25: after any sequence of subscribe calls the receiver list holds each
\* callback at most once, in the order of first registration; each publish
\* invokes every registered callback exactly once, in that order, with the
\* message, before it returns.
C25_BusCallsEachReceiverOnceInOrder ==
  /\ [](~orconn_state_rcvrs.null =>
          /\ orconn_state_rcvrs.list = FirstRegistrations(bus_sub_log)
          /\ \A i, j \in DOMAIN orconn_state_rcvrs.list :
               orconn_state_rcvrs.list[i] = orconn_state_rcvrs.list[j] => i = j)
  /\ [][orconn_state_publish =>
          LET want == Callable(FirstRegistrations(bus_sub_log))
          IN bus_calls' = bus_calls
               \o [i \in 1 .. Len(want) |-> [fn |-> want[i], msg |-> bus_n_pub']]]_vars

\* g, f and g again were subscribed; the second message went to g, then f
C25_Witness ==
  /\ bus_sub_log = << "g", "f", "g" >>
  /\ orconn_state_rcvrs.list = << "g", "f" >>
  /\ bus_n_pub = 2
  /\ SubSeq(bus_calls, Len(bus_calls) - 1, Len(bus_calls))
       = << [fn |-> "g", msg |-> 2], [fn |-> "f", msg |-> 2] >>

\* ---------------------------------------------------------------------
\* The ORCONN event (control_event_or_conn_status)

\* the status codes with a case in the switch, and one without
OrConnStatus ==
  [ OR_CONN_EVENT_LAUNCHED |-> "LAUNCHED", OR_CONN_EVENT_CONNECTED |-> "CONNECTED",
    OR_CONN_EVENT_FAILED |-> "FAILED", OR_CONN_EVENT_CLOSED |-> "CLOSED",
    OR_CONN_EVENT_NEW |-> "NEW" ]
OrConnEvents == DOMAIN OrConnStatus \cup { "OR_CONN_EVENT_OTHER" }

\* the reason argument: none, or some reason code
OrConnReasons == { 0, 7 }
\* circuits pending on the channel, and circuits attached to the connection
OrConnCounts == 0 .. 1

\* variant: the count is formatted for every status
OrConnLine_NcircsAnyStatus(tp, reason, ncircs) ==
  [status |-> OrConnStatus[tp],
   reason_clause |-> IF reason # 0 THEN " REASON=" ELSE "",
   reason_text |-> reason,
   ncircs_buf |-> IF ncircs # 0 THEN << ncircs >> ELSE << >>]

\* the arguments of the format at lines 96-102: the status, the REASON
\* prefix, the argument of orconn_end_reason_to_control_string, and the
\* number after " NCIRCS=" in ncircs_buf (empty when the buffer is left zeroed)
OrConnLine(tp, reason, ncircs) ==
  [status |-> OrConnStatus[tp],
   reason_clause |-> IF reason # 0 THEN " REASON=" ELSE "",
   reason_text |-> reason,
   ncircs_buf |-> IF ncircs # 0 /\ tp \in { "OR_CONN_EVENT_FAILED", "OR_CONN_EVENT_CLOSED" }
                    THEN << ncircs >> ELSE << >>]

control_event_or_conn_status(tp, reason, chan, pending, attached) ==
  /\ Running /\ pc[Main] = "idle"
  /\ oc_call' = [tp |-> tp, reason |-> reason, chan |-> chan,
                 pending |-> pending, attached |-> attached]
  /\ IF ~EVENT_IS_INTERESTING(EVENT_OR_CONN_STATUS) \/ tp \notin DOMAIN OrConnStatus
       THEN /\ oc_line' = NoLine
            /\ UNCHANGED << global_event_mask, connVars, queueVars, lock_exists,
                            lock_holder, flush_queued_events_event,
                            block_event_queue, pc, cur, queued_events,
                            old_mask, cmd_conn, assert_failed, next_msg,
                            n_cmds, histVars, armVars, escVars >>
       ELSE LET ncircs == (IF chan THEN pending ELSE 0) + attached
            IN /\ oc_line' = [msg |-> next_msg + 1] @@ OrConnLine(tp, reason, ncircs)
               /\ PublishCheckCore(Main, EVENT_OR_CONN_STATUS)
  /\ UNCHANGED busVars

\* number of ORCONN events published in a run of SpecOc
MaxOrConnMsgs == 2

\* ORCONN events of the main thread, with the subscription changing
NextOc ==
  \/ control_initialize_event_queue(TRUE)
  \/ \E body \in DispatchBodies : handle_control_setevents(DispatchConn, body)
  \/ RecomputeFinish
  \/ \E tp \in OrConnEvents, reason \in OrConnReasons, chan \in BOOLEAN,
        pending \in OrConnCounts, attached \in OrConnCounts :
       /\ next_msg < MaxOrConnMsgs
       /\ control_event_or_conn_status(tp, reason, chan, pending, attached)
  \/ PublishAcquire(Main)
  \/ PublishCritical(Main)
  \/ FlushBegin
  \/ FlushDrainDone
  \/ FlushSwap
  \/ FlushDeliver

SpecOc == Init /\ [][NextOc]_vars

OrConnStep ==
  \E tp \in OrConnEvents, reason \in OrConnReasons, chan \in BOOLEAN,
     pending \in OrConnCounts, attached \in OrConnCounts :
    control_event_or_conn_status(tp, reason, chan, pending, attached)

\* the pending circuits of the connection's channel, if it has one, plus
\* the circuits attached to the connection
CircuitsOf(c) == (IF c.chan THEN c.pending ELSE 0) + c.attached

C27_PublishAssertionsHold ==
  \A t \in Threads :
    (lock_exists /\ pc[t] = "pub_critical") =>
      /\ assert_failed # "tor_assert(queued_control_events)"
      /\ assert_failed # "tor_assert(flush_queued_events_event)"

\* the number of positions of the list l that hold the payload m
HeldIn(l, m) == Cardinality({ i \in DOMAIN l : l[i].msg = m })

\* the number of owners of the payload m: the publish that has allocated
\* its event, the shared queue, the list a flush or free_all took, and the
\* releases recorded
Owners(m) ==
  Cardinality({ t \in Threads : cur[t].msg = m })
    + HeldIn(queued_control_events.list, m)
    + HeldIn(queued_events, m)
    + Cardinality({ f \in freed : f.msg = m })

\* C28: while no assertion has stopped the process, every payload handed to
\* publish has exactly one owner at any time:
\* it was freed at once (uninteresting or reentrant), or it is held by the
\* publish, by one queue, or was freed once by a flush or by free_all; no
\* event is written twice to a client's outbuf, and an event that a flush
\* delivered is no longer in the queue.
C28_PayloadOwnedOnce ==
  Running =>
  /\ \A m \in 1 .. next_msg : Owners(m) = 1
  /\ \A f \in freed :
       f.why \in { "uninteresting", "reentry" } => EnqPos(f.msg) = 0
  /\ \A c \in Conns : \A m \in 1 .. next_msg :
       /\ CountMsg(outbuf[c], m) <= 1
       /\ CountMsg(outbuf[c], m) = 1 =>
            /\ HeldIn(queued_control_events.list, m) = 0
            /\ [msg |-> m, why |-> "flushed"] \in freed

\* one payload was dropped, one was delivered and freed by a flush, one was
\* freed by free_all
C28_Witness ==
  /\ \A t \in Threads : pc[t] = "idle"
  /\ \E f \in freed : f.why = "uninteresting"
  /\ \E f \in freed : f.why = "free_all"
  /\ \E f \in freed : f.why = "flushed" /\ CountMsg(outbuf[DispatchConn], f.msg) = 1

\* the positions of a thread between the ++ and the -- of its guard
GuardedPositions == { "pub_acquire", "pub_critical", "flush_swap", "flush_deliver" }

\* C29: a thread's reentry guard is 0 whenever the thread is outside
\* publish and flush, is never negative and never above 1, and is 1 exactly
\* between the increment and the decrement of a publish or a flush, so every
\* path, the early returns included, leaves it as it was on entry.
C29_GuardBalanced ==
  Running =>
    \A t \in Threads :
      /\ block_event_queue[t] \in { 0, 1 }
      /\ block_event_queue[t] = 1 <=> pc[t] \in GuardedPositions

\* a flush has delivered its batch and returned, and a publish was dropped
\* as uninteresting: the main thread is idle again with its guard at 0
C29_Witness ==
  /\ Running
  /\ pc[Main] = "idle" /\ block_event_queue[Main] = 0
  /\ \E f \in freed : f.why = "flushed"
  /\ \E f \in freed : f.why = "uninteresting"


(* ---------------------------------------------------------------------- *)
(* Progress of the queue under a running mainloop                          *)
(* ---------------------------------------------------------------------- *)
\* The dispatcher without control_events_free_all: the process is not torn
\* down.
NextLive ==
  \/ \E b \in BOOLEAN : control_initialize_event_queue(b)
  \/ \E t \in Threads : PublishCheck(t, EVENT_OR_CONN_STATUS)
  \/ \E t \in Threads : PublishAcquire(t)
  \/ \E t \in Threads : PublishCritical(t)
  \/ \E t \in Threads : ReentrantPublish(t, EVENT_OR_CONN_STATUS)
  \/ \E body \in DispatchBodies : handle_control_setevents(DispatchConn, body)
  \/ RecomputeFinish
  \/ \E t \in Threads : control_event_logmsg_pending(t)
  \/ FlushBegin
  \/ FlushDrainDone
  \/ FlushSwap
  \/ FlushDeliver

\* The mainloop runs an activated handle once the main thread is back in it
\* (FlushBegin), a function that was entered runs on to its return, and a
\* thread that holds or waits for the mutex is scheduled.
SpecLive ==
  /\ Init /\ [][NextLive]_vars
  /\ WF_vars(FlushBegin)
  /\ WF_vars(FlushDrainDone)
  /\ WF_vars(FlushSwap)
  /\ WF_vars(FlushDeliver)
  /\ WF_vars(RecomputeFinish)
  /\ \A t \in Threads : WF_vars(PublishAcquire(t)) /\ WF_vars(PublishCritical(t))

\* payload m is in the queue and was put there by publish on thread t
QueuedBy(t, m) ==
  /\ HeldIn(queued_control_events.list, m) > 0
  /\ \E i \in DOMAIN enq_log : enq_log[i].msg = m /\ enq_log[i].thread = t

\* the flush callback is running and has not yet taken the queue
FlushBeforeSwap == pc[Main] \in { "flush_drain", "flush_swap" }

IsPrefix(a, b) ==
  /\ Len(a) <= Len(b)
  /\ \A i \in DOMAIN a : b[i] = a[i]

\* a successful SETEVENTS of connection c is between the store of its mask
\* and send_control_done
InSetevents(c) == pc[Main] = "recompute" /\ cmd_conn = c

\* C31: every outbuf only grows at its end; from the moment a successful
\* SETEVENTS has stored the client's mask until its reply is written no
\* event payload is written to any outbuf, and the handler ends by appending
\* "250 OK" to the client's outbuf: the reply precedes every event delivered
\* to the client after the command, the events that were already queued
\* included.
C31_ReplyPrecedesLaterEvents ==
  [][ /\ \A c \in Conns : IsPrefix(outbuf[c], outbuf'[c])
      /\ \A c \in Conns :
           InSetevents(c) =>
             /\ \A d \in Conns : EventMsgs(outbuf'[d]) = EventMsgs(outbuf[d])
             /\ \/ /\ InSetevents(c)'
                   /\ outbuf' = outbuf
                \/ /\ pc'[Main] = "idle"
                   /\ outbuf' = [outbuf EXCEPT ![c] = Append(@, Reply("250 OK"))]
    ]_vars

\* a client that has not subscribed before is inside a successful SETEVENTS
\* while the queue already holds an event of a code it has just asked for
C31_Witness ==
  \E c \in ControlConns :
    /\ Running /\ InSetevents(c)
    /\ conn_state[c] = "OPEN" /\ ~marked_for_close[c]
    /\ outbuf[c] = << >>
    /\ \E i \in DOMAIN queued_control_events.list :
         queued_control_events.list[i].event \in event_mask[c]
====
